---- MODULE Spec2Model ----
(***************************************************************************)
(* Session-security core of PassQ.                                         *)
(*                                                                         *)
(* Part I   TokenManager (backend/src/token_management.rs): the in-memory  *)
(*          revocation list and session registry behind their mutexes.     *)
(*          SpecTM takes every call as one step; SpecTMConc takes          *)
(*          refresh_token_pair in the lock sections the code takes.        *)
(* Part II  EnterpriseSessionManager (enterprise_session_manager.rs): the  *)
(*          database-backed session registry, its limit enforcement and    *)
(*          its risk scoring.                                              *)
(* Part III auth.rs, the stateless token codec, and audit.rs, the tagged   *)
(*          audit log that login writes to.                                *)
(* Part IV  crypto.rs, the AES-256-GCM envelope (SpecCrypto), and          *)
(*          key_management.rs, provider detection and the process-wide     *)
(*          key manager (SpecKeys).                                        *)
(* Part V   Concurrency: the three locks of the TokenManager (SpecLocks)   *)
(*          and update_device_trust statement by statement                 *)
(*          (SpecTrustRace).                                               *)
(*                                                                         *)
(* Time is counted in minutes.  Uuid::new_v4() is a fresh number.          *)
(***************************************************************************)
EXTENDS Integers, FiniteSets, Sequences, Bags, TLC

\* ------------------------------------------------------------------ bounds
\* TokenManager: token pairs issued (logins and rotations) plus clock advances
MaxEvents == 4
\* EnterpriseSessionManager: sessions created plus clock advances
MaxEsmEvents == 5
\* auth.rs: issuing calls plus clock advances
MaxAuthEvents == 4
\* session_limits.max_concurrent_sessions as configured for the subject
max_concurrent_sessions == 2
\* session_limits.max_sessions_per_device as configured for the subject
max_sessions_per_device == 1

\* --------------------------------------------------------- program constants
\* Duration::minutes(15): access-token lifetime
AccessTTL == 15
\* Duration::days(7): refresh-token lifetime
RefreshTTL == 10080
\* Duration::days(30): how long revoke_token keeps a revocation record
RevocationTTL == 43200
\* Duration::days(30): idle time after which cleanup drops a session
SessionIdleTTL == 43200
\* Validation::new(Algorithm::HS256): the default leeway of 60 seconds
Leeway == 1
\* Duration::days(7): lifetime of the token auth::generate_token signs
GenerateTokenTTL == 10080
\* Duration::hours(2): how far back check_security_events looks for sessions
RecentWindow == 120
\* Duration::days(30): idle time after which cleanup_expired_data drops a session
EsmIdleTTL == 43200
\* Duration::days(30): how long cleanup_expired_data keeps an expired revocation
EsmRetention == 43200

Users == {"u1"}
Threads == {1, 2}
\* the steps by which the clock moves
Jumps == {RefreshTTL, RevocationTTL}

NoClaims == [jti |-> 0]
NoSession == [user_id |-> "", access_token_jti |-> 0, refresh_token_jti |-> 0]
NoRequest == [user_id |-> "", device_fingerprint |-> "none", location_country |-> "none",
              ip_address |-> FALSE]
\* no session loaded for scoring yet
NoScoredSession ==
    [user_id |-> "", device_fingerprint |-> "none", location_country |-> "none",
     created_at |-> 0, last_activity |-> 0]
\* no SessionValidationResponse returned yet
NoResponse == [valid |-> FALSE, risk_score |-> 0, trust_level |-> "", actions_required |-> <<>>]
\* no login answered yet
NoLogin == [status |-> 0, audit |-> "none"]
\* rows of session_security_events one session has at most
MaxScoredEvents == 2
\* Duration::days(7), the lookback of get_session_security_events
EventLookback == 10080
\* Duration::days(7), the age from which a session counts as old
OldSessionAge == 10080
\* Duration::hours(24), the idle time from which a session counts as inactive
InactiveAge == 1440
\* Duration::days(30), the age from which a session must be refreshed
ForceRefreshAge == 43200
\* calls of log_event
MaxAuditEvents == 2
\* bytes of the longest payload encrypted
MaxPayload == 2
\* calls on the TokenManager whose locking is followed
MaxLockCalls == 3
\* calls of update_device_trust that pass
MaxTrustCalls == 4
\* bytes of an AES-256-GCM nonce
NonceLen == 12
\* bytes of an AES-256-GCM tag
TagLen == 16
\* bytes of an AES-256-GCM key
KeyLen == 32
\* ENCRYPTION_KEY is not set
NoKey == [set |-> FALSE, len |-> 0, id |-> 0]
\* nothing encrypted yet
NoBlob == [data |-> <<>>, payload |-> <<>>, key |-> NoKey]
\* no crypto.rs wrapper called yet
NoOutput == [op |-> "none", ok |-> FALSE, err |-> "", val |-> <<>>, input |-> <<>>, key |-> NoKey]
\* the mutexes of a TokenManager
Locks == {"active_sessions", "revoked_tokens", "token_analytics"}
\* a caller not inside update_device_trust
NoTrustRead == [at |-> "idle", found |-> FALSE, session_count |-> 0]
\* CreateSessionRequest.device_fingerprint; "none" is None
Devices == {"none", "d1", "d2"}
\* request.location["country"]; "none" is a request without one
Countries == {"none", "A", "B"}
\* the steps by which the clock moves for the EnterpriseSessionManager
EsmJumps == {1, RefreshTTL}
VARIABLES
    now,              \* Utc::now()
    advances,         \* clock advances so far
    revoked_tokens,   \* TokenManager.revoked_tokens: jti -> RevokedToken
    active_sessions,  \* TokenManager.active_sessions: session_id -> ActiveSession
    issued,           \* every signed token handed to a client
    pairs,            \* token pairs issued so far (source of fresh uuids)
    pc,               \* per caller: where its refresh_token_pair call stands
    claims,           \* per caller: the claims its refresh token decoded to
    removed,          \* per caller: the session its revoke_session call took out
    revoke_called,    \* history: jtis revoke_token was called with
    rotations,        \* history: refresh jti -> rotations that succeeded on it
    type_rejected,    \* history: the jti refresh_token_pair last refused for its type
    db_sessions,      \* table active_sessions: session_id -> EnterpriseSession
    db_revoked,       \* table revoked_tokens: jti -> EnterpriseRevokedToken
    created,          \* enterprise sessions created so far (source of fresh uuids)
    es_pc,            \* per caller: where its create_session call stands
    es_req,           \* per caller: the CreateSessionRequest it is serving
    db_trusted,       \* table trusted_devices: <<user_id, device_fingerprint>>
    db_events,        \* table session_security_events
    es_returned,      \* history: sessions create_session returned with their tokens
    es_errors,        \* history: <<session, step>> of every create_session that failed
    sc_events,        \* session_security_events rows of the session being scored
    sc_session,       \* the row validate_session last loaded, as it found it
    sc_response,      \* the SessionValidationResponse it then returned
    audit_logs,       \* table audit_logs
    audit_secret,     \* the environment's AUDIT_SECRET
    audit_calls,      \* calls of log_event so far
    audit_result,     \* what the last call of log_event returned
    login_response,   \* what the last login answered
    encryption_key,   \* the environment's ENCRYPTION_KEY
    blob,             \* the last envelope encrypt_password produced, and from what
    crypto_out,       \* what the last call of a crypto.rs wrapper returned
    key_env,          \* the key-provider variables set in the environment
    KEY_MANAGER,      \* the OnceLock holding the process-wide KeyManager
    km_inits,         \* history: times the OnceLock's initializer ran
    lock_holder,      \* per TokenManager mutex: the caller holding it, 0 if free
    lk_prog,          \* per caller: the lock operations its call has still to do
    lk_calls,         \* calls started on the TokenManager so far
    td_rows,          \* table trusted_devices, row by row
    td_pc,            \* per caller: what its update_device_trust read
    td_passed,        \* history: calls that passed the trust update, per device
    auth_issued,      \* every token the functions of auth.rs have signed
    auth_calls        \* issuing calls of auth.rs so far

tm_vars == <<revoked_tokens, active_sessions, issued, pairs, pc, claims, removed,
             revoke_called, rotations, type_rejected>>

esm_vars == <<db_sessions, db_revoked, created, es_pc, es_req, db_trusted, db_events,
              es_returned, es_errors>>

risk_vars == <<sc_events, sc_session, sc_response>>

audit_vars == <<audit_logs, audit_secret, audit_calls, audit_result, login_response>>

auth_vars == <<auth_issued, auth_calls>>

crypto_vars == <<encryption_key, blob, crypto_out>>

km_vars == <<key_env, KEY_MANAGER, km_inits>>

lock_vars == <<lock_holder, lk_prog, lk_calls>>

trust_vars == <<td_rows, td_pc, td_passed>>

more_vars == <<crypto_vars, km_vars, lock_vars, trust_vars>>

vars == <<now, advances, tm_vars, esm_vars, auth_vars, risk_vars, audit_vars, more_vars>>

\* ------------------------------------------------------------ Token Codec

\* the access and refresh claim sets of the pair numbered k, issued at time t
AccessClaims(k, u, t) ==
    [jti |-> 2 * k - 1, sub |-> u, token_type |-> "access", session_id |-> k,
     iat |-> t, exp |-> t + AccessTTL, sig |-> "ok"]

RefreshClaims(k, u, t) ==
    [jti |-> 2 * k, sub |-> u, token_type |-> "refresh", session_id |-> k,
     iat |-> t, exp |-> t + RefreshTTL, sig |-> "ok"]

\* a token whose signature does not verify under JWT_SECRET
Forged(tok) == [tok EXCEPT !.sig = "bad"]

\* what a client can present: an issued token, or a tampered copy of a token of
\* the first pair
Presentable == issued \cup {Forged(tok) : tok \in {x \in issued : x.session_id = 1}}

\* jsonwebtoken::decode: the signature first, then exp against the clock
decode(tok, t) ==
    IF tok.sig # "ok" THEN "BadSignature"
    ELSE IF tok.exp < t - Leeway THEN "Expired"
    ELSE "ok"

\* ------------------------------------------------------- TokenManager state

\* the record kept only as long as an access token lives
RevokedToken_short(u, ty, reason, t) ==
    [user_id |-> u, token_type |-> ty, revoked_at |-> t,
     expires_at |-> t + AccessTTL, reason |-> reason]

RevokedToken(u, ty, reason, t) ==
    [user_id |-> u, token_type |-> ty, revoked_at |-> t,
     expires_at |-> t + RevocationTTL, reason |-> reason]

\* revoked_tokens.insert(jti, revoked_token)
revoke_token(rt, jti, u, ty, reason, t) ==
    [j \in DOMAIN rt \cup {jti} |->
        IF j = jti THEN RevokedToken(u, ty, reason, t) ELSE rt[j]]

\* validation that never looks at the revocation list
validate_enhanced_token_unchecked(tok, rt, t) == decode(tok, t)

\* the outcome of validate_enhanced_token on tok, the revocation list being rt
\* and the time t
validate_enhanced_token(tok, rt, t) ==
    IF decode(tok, t) # "ok" THEN decode(tok, t)
    ELSE IF tok.jti \in DOMAIN rt THEN "Revoked"
    ELSE "ok"

\* rotation that never looks at the token's type
refresh_result_untyped(tok, rt, t) == validate_enhanced_token(tok, rt, t)

\* the outcome of refresh_token_pair on tok: the validation error, or
\* "Invalid token type" for a token that is not a refresh token, or success
refresh_result(tok, rt, t) ==
    IF validate_enhanced_token(tok, rt, t) # "ok" THEN validate_enhanced_token(tok, rt, t)
    ELSE IF tok.token_type # "refresh" THEN "InvalidTokenType"
    ELSE "ok"

\* what enhanced_verify_auth answers in "valid"
enhanced_verify_auth(tok, rt, t) == validate_enhanced_token(tok, rt, t) = "ok"

\* session.last_activity = Utc::now() for the token's session, if it is there
touch_session(as, sid, t) ==
    IF sid \in DOMAIN as THEN [as EXCEPT ![sid].last_activity = t] ELSE as

ActiveSession(k, u, t) ==
    [user_id |-> u, access_token_jti |-> 2 * k - 1, refresh_token_jti |-> 2 * k,
     created_at |-> t, last_activity |-> t]

\* sessions.insert(session_id, session)
insert_session(as, k, u, t) ==
    [s \in DOMAIN as \cup {k} |-> IF s = k THEN ActiveSession(k, u, t) ELSE as[s]]

remove_sessions(as, gone) == [s \in DOMAIN as \ gone |-> as[s]]

\* calls of refresh_token_pair that passed validation and have not yet issued
InFlight == {th \in Threads : pc[th] \in {"validated", "revoked"}}

\* one more pair or clock advance stays within the bound
CanIssue == pairs + advances + Cardinality(InFlight) < MaxEvents

\* successful rotations on the refresh token j so far
Rotations(rs, j) == IF j \in DOMAIN rs THEN rs[j] ELSE 0

count_rotation(rs, j) ==
    [x \in DOMAIN rs \cup {j} |-> IF x = j THEN Rotations(rs, j) + 1 ELSE rs[x]]

caller_vars == <<pc, claims, removed>>
history_vars == <<revoke_called, rotations, type_rejected>>

\* ---------------------------------------------------- TokenManager actions

Init ==
    /\ now = 0
    /\ advances = 0
    /\ revoked_tokens = <<>>
    /\ active_sessions = <<>>
    /\ issued = {}
    /\ pairs = 0
    /\ pc = [th \in Threads |-> "idle"]
    /\ claims = [th \in Threads |-> NoClaims]
    /\ removed = [th \in Threads |-> NoSession]
    /\ revoke_called = {}
    /\ rotations = <<>>
    /\ type_rejected = 0
    /\ db_sessions = <<>>
    /\ db_revoked = <<>>
    /\ created = 0
    /\ es_pc = [th \in Threads |-> "idle"]
    /\ es_req = [th \in Threads |-> NoRequest]
    /\ db_trusted = {}
    /\ db_events = {}
    /\ auth_issued = {}
    /\ auth_calls = 0
    /\ es_returned = {}
    /\ es_errors = {}
    /\ sc_events = EmptyBag
    /\ sc_session = NoScoredSession
    /\ sc_response = NoResponse
    /\ audit_logs = {}
    /\ audit_secret = "unset"
    /\ audit_calls = 0
    /\ audit_result = "none"
    /\ login_response = NoLogin
    /\ encryption_key = NoKey
    /\ blob = NoBlob
    /\ crypto_out = NoOutput
    /\ key_env = {}
    /\ KEY_MANAGER = "uninit"
    /\ km_inits = 0
    /\ lock_holder = [l \in Locks |-> 0]
    /\ lk_prog = [th \in Threads |-> <<>>]
    /\ lk_calls = 0
    /\ td_rows = <<>>
    /\ td_pc = [th \in Threads |-> NoTrustRead]
    /\ td_passed = 0

\* the clock moves
Advance(d) ==
    /\ CanIssue
    /\ now' = now + d
    /\ advances' = advances + 1
    /\ UNCHANGED <<auth_vars, esm_vars, risk_vars, audit_vars, more_vars, revoked_tokens, active_sessions, issued, pairs,
                   caller_vars, history_vars>>

\* enhanced_login -> generate_enhanced_token_pair(user, Uuid::new_v4(), ...)
generate_enhanced_token_pair(u) ==
    /\ CanIssue
    /\ pairs' = pairs + 1
    /\ issued' = issued \cup {AccessClaims(pairs', u, now), RefreshClaims(pairs', u, now)}
    /\ active_sessions' = insert_session(active_sessions, pairs', u, now)
    /\ UNCHANGED <<auth_vars, esm_vars, risk_vars, audit_vars, more_vars, now, advances, revoked_tokens, caller_vars, history_vars>>

\* enhanced_verify_auth -> validate_enhanced_token(token)
Validate(tok) ==
    /\ active_sessions' =
          IF validate_enhanced_token(tok, revoked_tokens, now) = "ok"
          THEN touch_session(active_sessions, tok.session_id, now)
          ELSE active_sessions
    /\ UNCHANGED <<auth_vars, esm_vars, risk_vars, audit_vars, more_vars, now, advances, revoked_tokens, issued, pairs, caller_vars,
                   history_vars>>

\* refresh_token_pair(refresh_token, ...) as one call: validate the token and
\* its type, revoke the old refresh token, issue a pair under a new session id
refresh_token_pair(tok) ==
    LET v == validate_enhanced_token(tok, revoked_tokens, now)
        res == refresh_result(tok, revoked_tokens, now)
        ok == res = "ok"
        touched == IF v = "ok" THEN touch_session(active_sessions, tok.session_id, now)
                   ELSE active_sessions
    IN /\ ok => CanIssue
       /\ IF ok
          THEN /\ revoked_tokens' = revoke_token(revoked_tokens, tok.jti, tok.sub,
                                                 "refresh", "token_rotation", now)
               /\ revoke_called' = revoke_called \cup {tok.jti}
               /\ pairs' = pairs + 1
               /\ issued' = issued \cup {AccessClaims(pairs', tok.sub, now),
                                         RefreshClaims(pairs', tok.sub, now)}
               /\ active_sessions' = insert_session(touched, pairs', tok.sub, now)
               /\ rotations' = count_rotation(rotations, tok.jti)
               /\ UNCHANGED type_rejected
          ELSE /\ active_sessions' = touched
               /\ type_rejected' = IF res = "InvalidTokenType"
                                   THEN tok.jti ELSE type_rejected
               /\ UNCHANGED <<revoked_tokens, revoke_called, pairs, issued, rotations>>
       /\ UNCHANGED <<auth_vars, esm_vars, risk_vars, audit_vars, more_vars, now, advances, caller_vars>>

\* refresh_token_pair, lines 250-261: validate the token, then its type
refresh_validate(th, tok) ==
    /\ pc[th] = "idle"
    /\ LET v == validate_enhanced_token(tok, revoked_tokens, now)
           res == refresh_result(tok, revoked_tokens, now)
           ok == res = "ok"
       IN /\ ok => CanIssue
          /\ type_rejected' = IF res = "InvalidTokenType"
                              THEN tok.jti ELSE type_rejected
          /\ active_sessions' =
                IF v = "ok" THEN touch_session(active_sessions, tok.session_id, now)
                ELSE active_sessions
          /\ pc' = [pc EXCEPT ![th] = IF ok THEN "validated" ELSE "idle"]
          /\ claims' = [claims EXCEPT ![th] = IF ok THEN tok ELSE NoClaims]
    /\ UNCHANGED <<auth_vars, esm_vars, risk_vars, audit_vars, more_vars, now, advances, revoked_tokens, issued, pairs, removed,
                   revoke_called, rotations>>

\* refresh_token_pair, lines 263-269: revoke the old refresh token
refresh_revoke(th) ==
    /\ pc[th] = "validated"
    /\ revoked_tokens' = revoke_token(revoked_tokens, claims[th].jti, claims[th].sub,
                                      "refresh", "token_rotation", now)
    /\ revoke_called' = revoke_called \cup {claims[th].jti}
    /\ pc' = [pc EXCEPT ![th] = "revoked"]
    /\ UNCHANGED <<auth_vars, esm_vars, risk_vars, audit_vars, more_vars, now, advances, active_sessions, issued, pairs, claims,
                   removed, rotations, type_rejected>>

\* refresh_token_pair, lines 271-293: a new session id and a new pair for it
refresh_generate(th) ==
    /\ pc[th] = "revoked"
    /\ pairs' = pairs + 1
    /\ issued' = issued \cup {AccessClaims(pairs', claims[th].sub, now),
                              RefreshClaims(pairs', claims[th].sub, now)}
    /\ active_sessions' = insert_session(active_sessions, pairs', claims[th].sub, now)
    /\ pc' = [pc EXCEPT ![th] = "idle"]
    /\ claims' = [claims EXCEPT ![th] = NoClaims]
    /\ rotations' = count_rotation(rotations, claims[th].jti)
    /\ UNCHANGED <<auth_vars, esm_vars, risk_vars, audit_vars, more_vars, now, advances, revoked_tokens, removed, revoke_called,
                   type_rejected>>

\* the /revoke endpoint with token_type "access" or "refresh", called by the
\* token's owner u with the token's own type ty
revoke_token_endpoint(u, tok, ty) ==
    /\ validate_enhanced_token(tok, revoked_tokens, now) = "ok"
    /\ active_sessions' = touch_session(active_sessions, tok.session_id, now)
    /\ revoked_tokens' = revoke_token(revoked_tokens, tok.jti, u, ty, "user_request", now)
    /\ revoke_called' = revoke_called \cup {tok.jti}
    /\ UNCHANGED <<auth_vars, esm_vars, risk_vars, audit_vars, more_vars, now, advances, issued, pairs, caller_vars, rotations, type_rejected>>

RECURSIVE revoke_sessions(_, _, _, _)
\* revoke_token on both token ids of every session in sids
revoke_sessions(rt, sids, reason, t) ==
    IF sids = {} THEN rt
    ELSE LET s == CHOOSE x \in sids : TRUE
             a == revoke_token(rt, active_sessions[s].access_token_jti,
                               active_sessions[s].user_id, "access", reason, t)
             r == revoke_token(a, active_sessions[s].refresh_token_jti,
                               active_sessions[s].user_id, "refresh", reason, t)
         IN revoke_sessions(r, sids \ {s}, reason, t)

session_jtis(sids) ==
    {active_sessions[s].access_token_jti : s \in sids}
        \cup {active_sessions[s].refresh_token_jti : s \in sids}

\* get_user_sessions(user_id): the records whose user_id is u
get_user_sessions(as, u) == {as[s] : s \in {x \in DOMAIN as : as[x].user_id = u}}

\* a revoke_all_user_tokens without the filter on user_id
revoke_all_user_tokens_unfiltered(u) ==
    LET mine == DOMAIN active_sessions
    IN /\ revoked_tokens' = revoke_sessions(revoked_tokens, mine, "user_request", now)
       /\ active_sessions' = remove_sessions(active_sessions, mine)
       /\ revoke_called' = revoke_called \cup session_jtis(mine)
       /\ UNCHANGED <<auth_vars, esm_vars, risk_vars, audit_vars, more_vars, now, advances, issued, pairs, caller_vars, rotations, type_rejected>>

\* revoke_all_user_tokens(user_id, reason)
revoke_all_user_tokens(u) ==
    LET mine == {s \in DOMAIN active_sessions : active_sessions[s].user_id = u}
    IN /\ revoked_tokens' = revoke_sessions(revoked_tokens, mine, "user_request", now)
       /\ active_sessions' = remove_sessions(active_sessions, mine)
       /\ revoke_called' = revoke_called \cup session_jtis(mine)
       /\ UNCHANGED <<auth_vars, esm_vars, risk_vars, audit_vars, more_vars, now, advances, issued, pairs, caller_vars, rotations, type_rejected>>

\* revoke_session(session_id, reason); "Session not found" changes nothing
revoke_session(sid) ==
    /\ sid \in DOMAIN active_sessions
    /\ revoked_tokens' = revoke_sessions(revoked_tokens, {sid}, "user_request", now)
    /\ active_sessions' = remove_sessions(active_sessions, {sid})
    /\ revoke_called' = revoke_called \cup session_jtis({sid})
    /\ UNCHANGED <<auth_vars, esm_vars, risk_vars, audit_vars, more_vars, now, advances, issued, pairs, caller_vars, rotations, type_rejected>>

\* revoke_session, lines 387-388: under the sessions lock, take the record out
revoke_session_remove(th, sid) ==
    /\ pc[th] = "idle"
    /\ sid \in DOMAIN active_sessions
    /\ removed' = [removed EXCEPT ![th] =
                      [user_id |-> active_sessions[sid].user_id,
                       access_token_jti |-> active_sessions[sid].access_token_jti,
                       refresh_token_jti |-> active_sessions[sid].refresh_token_jti]]
    /\ active_sessions' = remove_sessions(active_sessions, {sid})
    /\ pc' = [pc EXCEPT ![th] = "removed"]
    /\ UNCHANGED <<auth_vars, esm_vars, risk_vars, audit_vars, more_vars, now, advances, revoked_tokens, issued, pairs, claims,
                   history_vars>>

\* revoke_session, lines 390-395: revoke_token on the access token id
revoke_session_access(th) ==
    /\ pc[th] = "removed"
    /\ revoked_tokens' = revoke_token(revoked_tokens, removed[th].access_token_jti,
                                      removed[th].user_id, "access", "user_request", now)
    /\ revoke_called' = revoke_called \cup {removed[th].access_token_jti}
    /\ pc' = [pc EXCEPT ![th] = "access_revoked"]
    /\ UNCHANGED <<auth_vars, esm_vars, risk_vars, audit_vars, more_vars, now, advances, active_sessions, issued, pairs, claims,
                   removed, rotations, type_rejected>>

\* revoke_session, lines 397-402: revoke_token on the refresh token id
revoke_session_refresh(th) ==
    /\ pc[th] = "access_revoked"
    /\ revoked_tokens' = revoke_token(revoked_tokens, removed[th].refresh_token_jti,
                                      removed[th].user_id, "refresh", "user_request", now)
    /\ revoke_called' = revoke_called \cup {removed[th].refresh_token_jti}
    /\ pc' = [pc EXCEPT ![th] = "idle"]
    /\ removed' = [removed EXCEPT ![th] = NoSession]
    /\ UNCHANGED <<auth_vars, esm_vars, risk_vars, audit_vars, more_vars, now, advances, active_sessions, issued, pairs, claims,
                   rotations, type_rejected>>

\* revoked_tokens.retain(|_, token| token.expires_at > now)
retain_revoked(rt, t) == [j \in {x \in DOMAIN rt : rt[x].expires_at > t} |-> rt[j]]

\* sessions.retain(|_, session| session.last_activity > now - 30 days)
retain_sessions(as, t) ==
    [s \in {x \in DOMAIN as : as[x].last_activity > t - SessionIdleTTL} |-> as[s]]

\* cleanup_expired_tokens()
cleanup_expired_tokens ==
    /\ revoked_tokens' = retain_revoked(revoked_tokens, now)
    /\ active_sessions' = retain_sessions(active_sessions, now)
    /\ UNCHANGED <<auth_vars, esm_vars, risk_vars, audit_vars, more_vars, now, advances, issued, pairs, caller_vars, history_vars>>

NextTM ==
    \/ \E d \in Jumps : Advance(d)
    \/ \E u \in Users : generate_enhanced_token_pair(u)
    \/ \E tok \in Presentable : Validate(tok)
    \/ \E tok \in Presentable : refresh_token_pair(tok)
    \/ \E tok \in Presentable : revoke_token_endpoint(tok.sub, tok, tok.token_type)
    \/ \E u \in Users : revoke_all_user_tokens(u)
    \/ \E sid \in DOMAIN active_sessions : revoke_session(sid)
    \/ cleanup_expired_tokens

SpecTM == Init /\ [][NextTM]_vars

\* the users of a deployment with more than one
Subjects == {"u1", "u2"}

\* logins, validations and rotations of two users, and revoke_all_user_tokens
\* for either
NextTMSubjects ==
    \/ \E d \in Jumps : Advance(d)
    \/ \E u \in Subjects : generate_enhanced_token_pair(u)
    \/ \E tok \in Presentable : Validate(tok)
    \/ \E tok \in Presentable : refresh_token_pair(tok)
    \/ \E u \in Subjects : revoke_all_user_tokens(u)

SpecTMSubjects == Init /\ [][NextTMSubjects]_vars

\* concurrent callers of refresh_token_pair and revoke_session, each taken in
\* the lock sections the code takes, among logins and validations.  A caller
\* waiting for the sessions lock held by revoke_session finds the registry as
\* revoke_session left it, so the wait itself is not a step.
NextTMConc ==
    \/ \E u \in Users : generate_enhanced_token_pair(u)
    \/ \E tok \in Presentable : Validate(tok)
    \/ \E th \in Threads, tok \in Presentable : refresh_validate(th, tok)
    \/ \E th \in Threads : refresh_revoke(th)
    \/ \E th \in Threads : refresh_generate(th)
    \/ \E th \in Threads, sid \in DOMAIN active_sessions : revoke_session_remove(th, sid)
    \/ \E th \in Threads : revoke_session_access(th)
    \/ \E th \in Threads : revoke_session_refresh(th)

SpecTMConc == Init /\ [][NextTMConc]_vars


\* ------------------------------------------- EnterpriseSessionManager state

EnterpriseSession(k, u, d, c, t) ==
    [user_id |-> u, access_token_jti |-> 2 * k - 1, refresh_token_jti |-> 2 * k,
     created_at |-> t, last_activity |-> t, expires_at |-> t + RefreshTTL,
     device_fingerprint |-> d, location_country |-> c, is_active |-> TRUE]

\* diesel::insert_into(active_sessions::table).values(&session)
insert_enterprise_session(ss, k, u, d, c, t) ==
    [s \in DOMAIN ss \cup {k} |-> IF s = k THEN EnterpriseSession(k, u, d, c, t) ELSE ss[s]]

\* the access and refresh token generate_token_pair signed for the session sid
generate_token_pair(ss, sid) ==
    {AccessClaims(sid, ss[sid].user_id, ss[sid].created_at),
     RefreshClaims(sid, ss[sid].user_id, ss[sid].created_at)}

\* the tokens of the sessions on record, and tampered copies of the first one's
EnterprisePresentable ==
    LET signed == UNION {generate_token_pair(db_sessions, sid) : sid \in DOMAIN db_sessions}
    IN signed \cup {Forged(tok) : tok \in {x \in signed : x.session_id = 1}}

\* the rows the count query of the concurrent-session limit sees
user_counted(ss, u, t) ==
    {s \in DOMAIN ss : ss[s].user_id = u /\ ss[s].is_active /\ ss[s].expires_at > t}

\* the rows the oldest_sessions query of the concurrent-session limit sees
user_candidates(ss, u) ==
    {s \in DOMAIN ss : ss[s].user_id = u /\ ss[s].is_active}

\* the rows the count query of the device limit sees
device_counted(ss, u, d, t) ==
    {s \in user_counted(ss, u, t) : ss[s].device_fingerprint = d}

\* the rows the oldest_device_sessions query sees
device_candidates(ss, u, d) ==
    {s \in user_candidates(ss, u) : ss[s].device_fingerprint = d}

\* .order(last_activity.asc()).limit(n): every answer the database may give,
\* rows of equal last_activity coming in any order
oldest_sessions(ss, cand, n) ==
    {E \in SUBSET cand :
        /\ Cardinality(E) = n
        /\ \A e \in E, r \in cand \ E : ss[e].last_activity <= ss[r].last_activity}

\* update ... set is_active = false, for every session of gone
deactivate(ss, gone) ==
    [s \in DOMAIN ss |-> IF s \in gone THEN [ss[s] EXCEPT !.is_active = FALSE] ELSE ss[s]]

EnterpriseRevokedToken(ses, ty, reason, t) ==
    [user_id |-> ses.user_id, token_type |-> ty, revoked_at |-> t,
     expires_at |-> IF ty = "access" THEN t + AccessTTL ELSE ses.expires_at,
     reason |-> reason]

\* revoke_session_tokens for every session of gone
revoke_session_tokens(rv, ss, gone, reason, t) ==
    LET acc == {ss[s].access_token_jti : s \in gone}
        ref == {ss[s].refresh_token_jti : s \in gone}
        owner(j) == CHOOSE s \in gone :
                        j \in {ss[s].access_token_jti, ss[s].refresh_token_jti}
    IN [j \in DOMAIN rv \cup acc \cup ref |->
           IF j \in acc THEN EnterpriseRevokedToken(ss[owner(j)], "access", reason, t)
           ELSE IF j \in ref THEN EnterpriseRevokedToken(ss[owner(j)], "refresh", reason, t)
           ELSE rv[j]]

\* the sessions the concurrent-session limit may terminate
concurrent_evictions(ss, u, t) ==
    LET current_sessions == Cardinality(user_counted(ss, u, t))
    IN IF current_sessions >= max_concurrent_sessions
       THEN oldest_sessions(ss, user_candidates(ss, u),
                            current_sessions - max_concurrent_sessions + 1)
       ELSE {{}}

\* the sessions the device limit may terminate; none without a fingerprint
device_evictions(ss, u, d, t) ==
    LET device_sessions == Cardinality(device_counted(ss, u, d, t))
    IN IF d # "none" /\ device_sessions >= max_sessions_per_device
       THEN oldest_sessions(ss, device_candidates(ss, u, d),
                            device_sessions - max_sessions_per_device + 1)
       ELSE {{}}

\* enforce_session_limits: the concurrent-session limit, then the device limit
\* on what it left
enforce_session_limits(ss, u, d, t) ==
    UNION {{[concurrent |-> E1, device |-> E2] :
                E2 \in device_evictions(deactivate(ss, E1), u, d, t)} :
           E1 \in concurrent_evictions(ss, u, t)}

\* the revocation table after the evictions ev
revoke_evicted(rv, ss, ev, t) ==
    revoke_session_tokens(
        revoke_session_tokens(rv, ss, ev.concurrent, "concurrent_session_limit", t),
        ss, ev.device, "device_session_limit", t)

\* validate_session answers valid: true
session_valid(tok, ss, rv, t) ==
    /\ decode(tok, t) = "ok"
    /\ tok.jti \notin DOMAIN rv
    /\ tok.session_id \in DOMAIN ss
    /\ ss[tok.session_id].is_active

SessionSecurityEvent(sid, u, ty, sev) ==
    [session_id |-> sid, user_id |-> u, event_type |-> ty, severity |-> sev]

\* the session_revoked events revoke_session records for the sessions of gone
revoked_events(ss, gone) ==
    {SessionSecurityEvent(s, ss[s].user_id, "session_revoked", "medium") : s \in gone}

\* update_device_trust: a trust record for the request's fingerprint, if it
\* carries one and none is there
update_device_trust(tr, u, d) == IF d = "none" THEN tr ELSE tr \cup {<<u, d>>}

\* the rows the recent_sessions query of check_security_events counts
recent_sessions(ss, u, c, t) ==
    {s \in DOMAIN ss :
        /\ ss[s].user_id = u
        /\ ss[s].created_at > t - RecentWindow
        /\ ss[s].location_country \notin {"none", c}
        /\ ss[s].is_active}

\* check_security_events for the session k just inserted into ss, the trust
\* table being tr: the events it records
check_security_events(ss, tr, k, u, d, c, ip, t) ==
    (IF ip /\ c # "none" /\ recent_sessions(ss, u, c, t) # {}
     THEN {SessionSecurityEvent(k, u, "suspicious_location", "medium")} ELSE {})
    \cup
    (IF d # "none" /\ <<u, d>> \notin tr
     THEN {SessionSecurityEvent(k, u, "new_device", "low")} ELSE {})

\* calls of create_session that enforced the limits and have not yet inserted
Creating == {th \in Threads : es_pc[th] = "enforced"}

\* one more session or clock advance stays within the bound
CanCreate == created + advances + Cardinality(Creating) < MaxEsmEvents

\* ----------------------------------------- EnterpriseSessionManager actions

\* the clock moves
Tick(d) ==
    /\ CanCreate
    /\ now' = now + d
    /\ advances' = advances + 1
    /\ UNCHANGED <<auth_vars, tm_vars, esm_vars, risk_vars, audit_vars, more_vars>>

\* create_session(request) as one call: enforce the limits, update the device
\* trust, insert the session, check for security events
create_session(u, d, c, ip) ==
    /\ CanCreate
    /\ \E ev \in enforce_session_limits(db_sessions, u, d, now) :
          /\ db_revoked' = revoke_evicted(db_revoked, db_sessions, ev, now)
          /\ created' = created + 1
          /\ db_sessions' = insert_enterprise_session(
                                deactivate(db_sessions, ev.concurrent \cup ev.device),
                                created', u, d, c, now)
          /\ db_trusted' = update_device_trust(db_trusted, u, d)
          /\ db_events' = db_events
                \cup revoked_events(db_sessions, ev.concurrent \cup ev.device)
                \cup check_security_events(db_sessions', db_trusted', created',
                                            u, d, c, ip, now)
          /\ es_returned' = es_returned \cup {created'}
    /\ UNCHANGED <<now, advances, auth_vars, tm_vars, risk_vars, audit_vars, more_vars, es_pc, es_req,
                   es_errors>>

\* the steps of create_session that return early with `?`, from the insert on
FailSteps == {"insert", "generate_token_pair", "record_analytics", "check_security_events"}

\* check_security_events returning Err from one of its database statements:
\* every set of events it may have recorded by then.  A statement of the
\* location check fails before anything is recorded; a statement of the
\* device check fails after the location check has recorded what it found.
\* Without caller address and country, and without fingerprint, it runs no
\* statement and cannot fail.
check_security_events_failed(ss, tr, k, u, d, c, ip, t) ==
    (IF ip /\ c # "none" THEN {{}} ELSE {})
    \cup
    (IF d # "none"
     THEN {IF ip /\ c # "none" /\ recent_sessions(ss, u, c, t) # {}
           THEN {SessionSecurityEvent(k, u, "suspicious_location", "medium")} ELSE {}}
     ELSE {})

\* create_session(request) returning Err at step: what came before the step
\* stays in the database, nothing is rolled back, and the caller gets neither
\* session nor tokens
create_session_fails(u, d, c, ip, step) ==
    /\ CanCreate
    /\ \E ev \in enforce_session_limits(db_sessions, u, d, now) :
          LET gone == ev.concurrent \cup ev.device
              k == created + 1
              inserted == insert_enterprise_session(deactivate(db_sessions, gone),
                                                    k, u, d, c, now)
              trusted == update_device_trust(db_trusted, u, d)
          IN /\ db_revoked' = revoke_evicted(db_revoked, db_sessions, ev, now)
             /\ db_trusted' = trusted
             /\ created' = k
             /\ es_errors' = es_errors \cup {<<k, step>>}
             /\ IF step = "insert"
                THEN /\ db_sessions' = deactivate(db_sessions, gone)
                     /\ db_events' = db_events \cup revoked_events(db_sessions, gone)
                ELSE /\ db_sessions' = inserted
                     /\ IF step = "check_security_events"
                        THEN \E done \in check_security_events_failed(
                                              inserted, trusted, k, u, d, c, ip, now) :
                                db_events' = db_events
                                    \cup revoked_events(db_sessions, gone) \cup done
                        ELSE db_events' = db_events \cup revoked_events(db_sessions, gone)
    /\ UNCHANGED <<now, advances, auth_vars, tm_vars, risk_vars, audit_vars, more_vars, es_pc, es_req,
                   es_returned>>

\* create_session, lines 252-255: enforce_session_limits, update_device_trust
create_enforce(th, u, d, c, ip) ==
    /\ es_pc[th] = "idle"
    /\ CanCreate
    /\ \E ev \in enforce_session_limits(db_sessions, u, d, now) :
          /\ db_revoked' = revoke_evicted(db_revoked, db_sessions, ev, now)
          /\ db_sessions' = deactivate(db_sessions, ev.concurrent \cup ev.device)
          /\ db_events' = db_events
                \cup revoked_events(db_sessions, ev.concurrent \cup ev.device)
    /\ db_trusted' = update_device_trust(db_trusted, u, d)
    /\ es_pc' = [es_pc EXCEPT ![th] = "enforced"]
    /\ es_req' = [es_req EXCEPT ![th] =
                     [user_id |-> u, device_fingerprint |-> d, location_country |-> c,
                      ip_address |-> ip]]
    /\ UNCHANGED <<now, advances, auth_vars, tm_vars, risk_vars, audit_vars, more_vars, created,
                   es_returned, es_errors>>

\* create_session, lines 262-333: build the session record, insert it, check
\* for security events
create_insert(th) ==
    /\ es_pc[th] = "enforced"
    /\ created' = created + 1
    /\ db_sessions' = insert_enterprise_session(db_sessions, created', es_req[th].user_id,
                                                es_req[th].device_fingerprint,
                                                es_req[th].location_country, now)
    /\ db_events' = db_events
          \cup check_security_events(db_sessions', db_trusted, created',
                                      es_req[th].user_id, es_req[th].device_fingerprint,
                                      es_req[th].location_country,
                                      es_req[th].ip_address, now)
    /\ es_pc' = [es_pc EXCEPT ![th] = "idle"]
    /\ es_req' = [es_req EXCEPT ![th] = NoRequest]
    /\ es_returned' = es_returned \cup {created'}
    /\ UNCHANGED <<now, advances, auth_vars, tm_vars, risk_vars, audit_vars, more_vars, db_revoked,
                   db_trusted, es_errors>>

\* validate_session(token): a valid token bumps its session's last_activity
validate_session(tok) ==
    /\ db_sessions' =
          IF session_valid(tok, db_sessions, db_revoked, now)
          THEN [db_sessions EXCEPT ![tok.session_id].last_activity = now]
          ELSE db_sessions
    /\ UNCHANGED <<now, advances, auth_vars, tm_vars, risk_vars, audit_vars, more_vars, db_revoked,
                   created, es_pc, es_req, db_trusted, db_events, es_returned, es_errors>>

\* the HTTP response of the validate_enterprise_session handler to tok: what
\* validate_session returns, as 200 with the validation or as 401
validate_enterprise_session(tok, ss, rv, t) ==
    IF decode(tok, t) # "ok"
    THEN [status |-> 401, error |-> "Invalid session", valid |-> FALSE, risk_score |-> 0,
          trust_level |-> "", actions_required |-> <<>>]
    ELSE IF tok.jti \in DOMAIN rv
    THEN [status |-> 200, error |-> "", valid |-> FALSE, risk_score |-> 100,
          trust_level |-> "blocked", actions_required |-> <<"token_revoked">>]
    ELSE IF ~(tok.session_id \in DOMAIN ss /\ ss[tok.session_id].is_active)
    THEN [status |-> 200, error |-> "", valid |-> FALSE, risk_score |-> 100,
          trust_level |-> "unknown", actions_required |-> <<"session_not_found">>]
    ELSE [status |-> 200, error |-> "", valid |-> TRUE, risk_score |-> 0,
          trust_level |-> "", actions_required |-> <<>>]

\* revoke_session(session_id, reason, revoked_by) on a session still active
enterprise_revoke_session(sid) ==
    /\ sid \in DOMAIN db_sessions
    /\ db_sessions[sid].is_active
    /\ db_revoked' = revoke_session_tokens(db_revoked, db_sessions, {sid}, "user_request", now)
    /\ db_sessions' = deactivate(db_sessions, {sid})
    /\ db_events' = db_events \cup revoked_events(db_sessions, {sid})
    /\ UNCHANGED <<now, advances, auth_vars, tm_vars, risk_vars, audit_vars, more_vars, created, es_pc,
                   es_req, db_trusted, es_returned, es_errors>>

\* cleanup_expired_data(): delete expired or idle sessions and old revocations;
\* security events are kept for 180 days, longer than the clock gets here
cleanup_expired_data ==
    /\ db_sessions' =
          [s \in {x \in DOMAIN db_sessions :
                     ~ \/ db_sessions[x].expires_at < now
                       \/ db_sessions[x].last_activity < now - EsmIdleTTL} |->
              db_sessions[s]]
    /\ db_revoked' =
          [j \in {x \in DOMAIN db_revoked :
                     ~ (db_revoked[x].expires_at < now - EsmRetention)} |->
              db_revoked[j]]
    /\ UNCHANGED <<now, advances, auth_vars, tm_vars, risk_vars, audit_vars, more_vars, created, es_pc,
                   es_req, db_trusted, db_events, es_returned, es_errors>>

NextESM ==
    \/ \E d \in EsmJumps : Tick(d)
    \/ \E u \in Users, d \in Devices : create_session(u, d, "none", FALSE)
    \/ \E tok \in EnterprisePresentable : validate_session(tok)
    \/ \E sid \in DOMAIN db_sessions : enterprise_revoke_session(sid)
    \/ cleanup_expired_data

SpecESM == Init /\ [][NextESM]_vars

\* logins with and without location and caller address, within hours of each
\* other
NextESMSec ==
    \/ Tick(RecentWindow)
    \/ \E u \in Users, d \in {"none", "d1"}, c \in Countries, ip \in BOOLEAN :
          create_session(u, d, c, ip)

SpecESMSec == Init /\ [][NextESMSec]_vars

\* concurrent callers of create_session, among validations and the clock
NextESMConc ==
    \/ \E d \in EsmJumps : Tick(d)
    \/ \E th \in Threads, u \in Users, d \in Devices :
          create_enforce(th, u, d, "none", FALSE)
    \/ \E th \in Threads : create_insert(th)
    \/ \E tok \in EnterprisePresentable : validate_session(tok)

SpecESMConc == Init /\ [][NextESMConc]_vars

\* logins whose database statements may fail
NextESMFail ==
    \/ \E u \in Users, d \in {"none", "d1"} : create_session(u, d, "none", FALSE)
    \/ \E u \in Users, d \in {"none", "d1"}, step \in FailSteps :
          create_session_fails(u, d, "none", FALSE, step)
    \/ \E u \in Users, d \in {"none", "d1"} :
          create_session_fails(u, d, "A", TRUE, "check_security_events")

SpecESMFail == Init /\ [][NextESMFail]_vars

\* ------------------------------------------------------------ risk scoring

\* SessionSecurityEvent.severity; "info" stands for every other string
Severities == {"critical", "high", "medium", "low", "info"}

\* SessionSecurityEvent.resolved, an Option<bool>
Resolutions == {"true", "false", "null"}

\* how long before now an event was recorded: inside and outside the lookback
EventAges == {1, EventLookback + 1}

\* the columns of a session_security_events row that scoring reads
ScoredEvent(sev, res, ts) == [severity |-> sev, resolved |-> res, timestamp |-> ts]

\* the rows of the bag B that are in kept
filter_events(B, kept) == [e \in DOMAIN B \cap kept |-> B[e]]

\* get_session_security_events: the session's rows with timestamp > now - 7 days
get_session_security_events(evs, t) ==
    filter_events(evs, {e \in DOMAIN evs : e.timestamp > t - EventLookback})

\* the match on event.severity in calculate_risk_score
severity_weight(sev) ==
    CASE sev = "critical" -> 40
      [] sev = "high" -> 25
      [] sev = "medium" -> 15
      [] sev = "low" -> 5
      [] OTHER -> 0

\* the loop `for event in events` of calculate_risk_score
RECURSIVE event_risk(_)
event_risk(B) ==
    IF DOMAIN B = {} THEN 0
    ELSE LET e == CHOOSE x \in DOMAIN B : TRUE
         IN B[e] * severity_weight(e.severity)
            + event_risk(filter_events(B, DOMAIN B \ {e}))

\* a calculate_risk_score without the cap of line 964
calculate_risk_score_uncapped(session, events, t) ==
      (IF session.device_fingerprint = "none" THEN 20 ELSE 0)
    + (IF session.location_country = "none" THEN 10 ELSE 0)
    + event_risk(events)
    + (IF t - session.created_at > OldSessionAge THEN 10 ELSE 0)
    + (IF t - session.last_activity > InactiveAge THEN 15 ELSE 0)

\* calculate_risk_score(session, events) at time t
calculate_risk_score(session, events, t) ==
    LET risk_score ==
            (IF session.device_fingerprint = "none" THEN 20 ELSE 0)
          + (IF session.location_country = "none" THEN 10 ELSE 0)
          + event_risk(events)
          + (IF t - session.created_at > OldSessionAge THEN 10 ELSE 0)
          + (IF t - session.last_activity > InactiveAge THEN 15 ELSE 0)
    IN IF risk_score < 100 THEN risk_score ELSE 100

\* TrustedDevice.trust_level as update_device_trust writes it; nothing in the
\* program changes it afterwards
new_device_trust_level == "untrusted"

\* a get_device_trust_level that forgets to look the record up
get_device_trust_level_blind(tr, u, d) == "unknown"

\* get_device_trust_level(user_id, device_fingerprint) over the table tr
get_device_trust_level(tr, u, d) ==
    IF d # "none" /\ <<u, d>> \in tr THEN new_device_trust_level ELSE "unknown"

\* actions.sort(): the strings determine_required_actions pushes, in
\* lexicographic order
sort(acts) ==
    LET pick(a) == SelectSeq(acts, LAMBDA x : x = a)
    IN pick("force_refresh") \o pick("immediate_review") \o pick("monitor_closely")
       \o pick("notify_user") \o pick("require_mfa")

\* actions.dedup(): consecutive repeats removed
RECURSIVE dedup(_)
dedup(acts) ==
    IF Len(acts) < 2 THEN acts
    ELSE IF acts[1] = acts[2] THEN dedup(Tail(acts))
    ELSE <<acts[1]>> \o dedup(Tail(acts))

\* determine_required_actions that returns the actions in the order pushed
determine_required_actions_unsorted(session, events, risk_score, t) ==
    (IF risk_score > 80 THEN <<"require_mfa", "notify_user">>
     ELSE IF risk_score > 60 THEN <<"require_mfa">>
     ELSE IF risk_score > 40 THEN <<"monitor_closely">>
     ELSE <<>>)
    \o (IF \E e \in DOMAIN events : e.severity = "critical" /\ e.resolved # "true"
        THEN <<"immediate_review">> ELSE <<>>)
    \o (IF t - session.created_at > ForceRefreshAge THEN <<"force_refresh">> ELSE <<>>)

\* determine_required_actions(session, events, risk_score) at time t
determine_required_actions(session, events, risk_score, t) ==
    dedup(sort(
        (IF risk_score > 80 THEN <<"require_mfa", "notify_user">>
         ELSE IF risk_score > 60 THEN <<"require_mfa">>
         ELSE IF risk_score > 40 THEN <<"monitor_closely">>
         ELSE <<>>)
        \o (IF \E e \in DOMAIN events : e.severity = "critical" /\ e.resolved # "true"
            THEN <<"immediate_review">> ELSE <<>>)
        \o (IF t - session.created_at > ForceRefreshAge
            THEN <<"force_refresh">> ELSE <<>>)))

\* the sessions validate_session finds on record: with and without
\* fingerprint and country, fresh, idle, old, and due for a refresh
ScoredSessions ==
    {[user_id |-> u, device_fingerprint |-> d, location_country |-> c,
      created_at |-> now - a[1], last_activity |-> now - a[2]] :
        u \in Users, d \in {"none", "d1"}, c \in {"none", "A"},
        a \in {<<0, 0>>, <<OldSessionAge + 1, 0>>, <<OldSessionAge + 1, InactiveAge + 1>>,
               <<ForceRefreshAge + 1, InactiveAge + 1>>}}

\* record_security_event(event), the event resolved or not since
record_security_event(ev) ==
    /\ BagCardinality(sc_events) < MaxScoredEvents
    /\ sc_events' = sc_events (+) SetToBag({ev})
    /\ UNCHANGED <<now, advances, tm_vars, esm_vars, auth_vars, audit_vars, more_vars, sc_session,
                   sc_response>>

\* validate_session, lines 371-398: the branch for a session on record, ses
\* being the row the query returned
validate_session_response(ses) ==
    LET session == [ses EXCEPT !.last_activity = now]
        security_events == get_session_security_events(sc_events, now)
        risk_score == calculate_risk_score(session, security_events, now)
    IN /\ sc_session' = ses
       /\ sc_response' =
             [valid |-> TRUE,
              risk_score |-> risk_score,
              trust_level |-> get_device_trust_level(db_trusted, ses.user_id,
                                                     ses.device_fingerprint),
              actions_required |-> determine_required_actions(session, security_events,
                                                              risk_score, now)]
       /\ UNCHANGED <<now, advances, tm_vars, esm_vars, auth_vars, audit_vars, more_vars, sc_events>>

NextRisk ==
    \/ \E sev \in Severities, res \in Resolutions, age \in EventAges :
          record_security_event(ScoredEvent(sev, res, now - age))
    \/ \E ses \in ScoredSessions : validate_session_response(ses)

SpecRisk == Init /\ [][NextRisk]_vars

\* calculate_risk_score(&session, &events) for a session record and the list
\* of events on file, as they are
apply_calculate_risk_score(ses) ==
    /\ sc_session' = ses
    /\ sc_response' = [NoResponse EXCEPT
                          !.valid = TRUE,
                          !.risk_score = calculate_risk_score(ses, sc_events, now)]
    /\ UNCHANGED <<now, advances, tm_vars, esm_vars, auth_vars, audit_vars, more_vars, sc_events>>

\* the function on every session record and every list of up to
\* MaxScoredEvents events
NextScore ==
    \/ \E sev \in Severities, res \in Resolutions, age \in EventAges :
          record_security_event(ScoredEvent(sev, res, now - age))
    \/ \E ses \in ScoredSessions : apply_calculate_risk_score(ses)

SpecScore == Init /\ [][NextScore]_vars

\* the columns of the active_sessions row ses that scoring reads
session_row(ses) ==
    [user_id |-> ses.user_id, device_fingerprint |-> ses.device_fingerprint,
     location_country |-> ses.location_country, created_at |-> ses.created_at,
     last_activity |-> ses.last_activity]

\* logins with and without fingerprint, and validations of the sessions they
\* left active; the clock stands still, so a validated row keeps its
\* last_activity
NextTrust ==
    \/ \E u \in Users, d \in Devices : create_session(u, d, "none", FALSE)
    \/ \E s \in DOMAIN db_sessions :
          /\ db_sessions[s].is_active
          /\ validate_session_response(session_row(db_sessions[s]))

SpecTrust == Init /\ [][NextTrust]_vars

\* ------------------------------------------------------------------ auth.rs

\* auth::Claims {sub, exp, token_type}, signed at time t to live ttl; iat is
\* the time of signing, which the claims themselves do not carry
Claims(u, ty, t, ttl) ==
    [sub |-> u, token_type |-> ty, iat |-> t, exp |-> t + ttl, sig |-> "ok"]

\* the access and refresh token auth::generate_token_pair signs
TokenPair(u, t) == {Claims(u, "access", t, AccessTTL), Claims(u, "refresh", t, RefreshTTL)}

\* auth::validate_token
validate_token(tok, t) == decode(tok, t)

\* auth::validate_access_token
validate_access_token(tok, t) ==
    IF validate_token(tok, t) # "ok" THEN validate_token(tok, t)
    ELSE IF tok.token_type # "access" THEN "InvalidToken"
    ELSE "ok"

\* one more issuing call or clock advance stays within the bound
CanSign == auth_calls + advances < MaxAuthEvents

\* the clock moves
AuthTick(d) ==
    /\ CanSign
    /\ now' = now + d
    /\ advances' = advances + 1
    /\ UNCHANGED <<auth_vars, tm_vars, esm_vars, risk_vars, audit_vars, more_vars>>

\* auth::generate_token(user_id)
generate_token(u) ==
    /\ CanSign
    /\ auth_issued' = auth_issued \cup {Claims(u, "access", now, GenerateTokenTTL)}
    /\ auth_calls' = auth_calls + 1
    /\ UNCHANGED <<now, advances, tm_vars, esm_vars, risk_vars, audit_vars, more_vars>>

\* auth::generate_token_pair(user_id), as login and SSO login call it
auth_generate_token_pair(u) ==
    /\ CanSign
    /\ auth_issued' = auth_issued \cup TokenPair(u, now)
    /\ auth_calls' = auth_calls + 1
    /\ UNCHANGED <<now, advances, tm_vars, esm_vars, risk_vars, audit_vars, more_vars>>

\* auth::refresh_access_token(refresh_token): a new pair for a valid refresh
\* token, an error and nothing else otherwise
refresh_access_token(tok) ==
    /\ CanSign
    /\ IF validate_token(tok, now) = "ok" /\ tok.token_type = "refresh"
       THEN /\ auth_issued' = auth_issued \cup TokenPair(tok.sub, now)
            /\ auth_calls' = auth_calls + 1
       ELSE UNCHANGED auth_vars
    /\ UNCHANGED <<now, advances, tm_vars, esm_vars, risk_vars, audit_vars, more_vars>>

NextAuth ==
    \/ \E d \in EsmJumps \cup {AccessTTL} : AuthTick(d)
    \/ \E u \in Users : generate_token(u)
    \/ \E u \in Users : auth_generate_token_pair(u)
    \/ \E tok \in auth_issued \cup {Forged(x) : x \in auth_issued} : refresh_access_token(tok)

SpecAuth == Init /\ [][NextAuth]_vars

\* ------------------------------------------------------ claims, TokenManager

\* tok's refresh_token_pair call succeeds in this step
RotationStep(tok) ==
    Rotations(rotations', tok.jti) = Rotations(rotations, tok.jti) + 1

\* the sessions of user u in the registry as
SessionsOf(as, u) == {s \in DOMAIN as : as[s].user_id = u}

\* C1: a token whose jti revoke_token was ever called with is rejected by
\* validate_enhanced_token in every later state, whatever cleanup and the clock
\* have done since, also while its signature and expiry are valid.
C1_RevokedNeverValidates ==
    \A tok \in issued :
        tok.jti \in revoke_called =>
            validate_enhanced_token(tok, revoked_tokens, now) # "ok"

\* a revoked token whose record cleanup has purged and which is rejected as
\* expired, beside a revoked token with valid signature and expiry
C1_Witness ==
    /\ \E tok \in issued :
          /\ tok.jti \in revoke_called \ DOMAIN revoked_tokens
          /\ validate_enhanced_token(tok, revoked_tokens, now) = "Expired"
    /\ \E tok \in issued :
          /\ tok.jti \in revoke_called
          /\ decode(tok, now) = "ok"
          /\ validate_enhanced_token(tok, revoked_tokens, now) = "Revoked"

\* what a successful rotation of tok leaves behind: tok's id in the revocation
\* list, a new refresh token that validates, and tok never rotated before
RotationOutcome(tok) ==
    RotationStep(tok) =>
        /\ tok.jti \in DOMAIN revoked_tokens'
        /\ validate_enhanced_token(RefreshClaims(pairs', tok.sub, now'),
                                   revoked_tokens', now') = "ok"
        /\ Rotations(rotations, tok.jti) = 0

\* C2 as stated: after rotate(r) succeeds r's id is in the revocation list and
\* the new refresh token validates; every later rotate(r) issues no pair and
\* fails as revoked.
C2_ReplayFailsAsRevoked ==
    [][\A tok \in issued' :
          /\ RotationOutcome(tok)
          /\ Rotations(rotations', tok.jti) > 0 =>
                validate_enhanced_token(tok, revoked_tokens', now') = "Revoked"]_vars

\* C2 as amended: after rotate(r) succeeds r's id is in the revocation list and
\* the new refresh token validates; every later rotate(r) issues no pair and
\* fails, as revoked while r has not expired and as expired from then on.
C2_ReplayFails ==
    [][\A tok \in issued' :
          /\ RotationOutcome(tok)
          /\ Rotations(rotations', tok.jti) > 0 =>
                validate_enhanced_token(tok, revoked_tokens', now') =
                    (IF decode(tok, now') = "Expired" THEN "Expired" ELSE "Revoked")]_vars

\* a rotated refresh token, not yet expired, that is refused as revoked while
\* the refresh token issued in its place validates
C2_Witness ==
    \E tok \in issued, new \in issued :
        /\ Rotations(rotations, tok.jti) = 1
        /\ validate_enhanced_token(tok, revoked_tokens, now) = "Revoked"
        /\ new.token_type = "refresh" /\ new.iat >= tok.iat /\ new.jti # tok.jti
        /\ Rotations(rotations, new.jti) = 0
        /\ validate_enhanced_token(new, revoked_tokens, now) = "ok"

\* C3: of the concurrent refresh_token_pair calls that present one refresh
\* token at most one succeeds; no token is rotated twice.
C3_AtMostOneRotation ==
    \A j \in DOMAIN rotations : rotations[j] <= 1

\* C4: a session id has one record, and neither token id of a session in the
\* registry is in the revocation list.
C4_ActiveSessionTokensUnrevoked ==
    /\ \A s \in DOMAIN active_sessions :
          /\ active_sessions[s].access_token_jti \notin DOMAIN revoked_tokens
          /\ active_sessions[s].refresh_token_jti \notin DOMAIN revoked_tokens
    /\ \A s, r \in DOMAIN active_sessions :
          active_sessions[s].refresh_token_jti = active_sessions[r].refresh_token_jti
              => s = r

\* C5: a successful rotation of a refresh token of session s keeps the record
\* of s, puts the ids of the returned pair in it, and leaves the number of the
\* subject's session records as it was.
C5_RotationUpdatesRecord ==
    [][\A tok \in issued :
          (RotationStep(tok) /\ tok.session_id \in DOMAIN active_sessions) =>
              /\ tok.session_id \in DOMAIN active_sessions'
              /\ active_sessions'[tok.session_id].access_token_jti = 2 * pairs' - 1
              /\ active_sessions'[tok.session_id].refresh_token_jti = 2 * pairs'
              /\ Cardinality(SessionsOf(active_sessions', tok.sub)) =
                     Cardinality(SessionsOf(active_sessions, tok.sub))]_vars

\* C6: after a successful rotation the access token issued together with the
\* rotated refresh token is in the revocation list and no longer validates.
C6_RotationRevokesAccessToken ==
    [][\A tok \in issued :
          RotationStep(tok) =>
              \A acc \in issued :
                  (acc.session_id = tok.session_id /\ acc.token_type = "access") =>
                      /\ acc.jti \in DOMAIN revoked_tokens'
                      /\ validate_enhanced_token(acc, revoked_tokens', now') # "ok"]_vars

\* C11: a token that validate_enhanced_token accepts names a session that is
\* in the registry; with the session absent the token is rejected.
C11_AcceptedOnlyWithSession ==
    \A tok \in issued :
        validate_enhanced_token(tok, revoked_tokens, now) = "ok"
            => tok.session_id \in DOMAIN active_sessions

\* C12: token verification, an access-scoped entry point, rejects every
\* refresh-kind token.
C12_VerifyRejectsRefresh ==
    \A tok \in issued :
        tok.token_type = "refresh" => ~ enhanced_verify_auth(tok, revoked_tokens, now)

\* C13: refresh_token_pair given a valid, unrevoked access token answers
\* "Invalid token type"; the step in which it does so revokes nothing, adds no
\* session record and issues no pair; and no token other than a refresh token
\* is ever rotated.
C13_RotateRejectsAccessToken ==
    [][\A tok \in issued :
          /\ (/\ tok.token_type = "access"
              /\ validate_enhanced_token(tok, revoked_tokens, now) = "ok"
              /\ refresh_token_pair(tok))
                => /\ refresh_result(tok, revoked_tokens, now) = "InvalidTokenType"
                   /\ type_rejected' = tok.jti
                   /\ revoked_tokens' = revoked_tokens
                   /\ DOMAIN active_sessions' = DOMAIN active_sessions
                   /\ issued' = issued /\ pairs' = pairs
          /\ RotationStep(tok) => tok.token_type = "refresh"]_vars

\* an access token that refresh_token_pair refused for its type while it was
\* valid and unrevoked, and that still is
C13_Witness ==
    \E tok \in issued :
        /\ tok.jti = type_rejected
        /\ tok.token_type = "access"
        /\ validate_enhanced_token(tok, revoked_tokens, now) = "ok"
        /\ tok.session_id \in DOMAIN active_sessions

\* C14: revoking a token id that is already in the revocation list is a no-op:
\* an entry that stays in the list stays as the first revoke_token wrote it,
\* with its revoked_at, expires_at and reason.
C14_RevokeIdempotent ==
    [][\A j \in DOMAIN revoked_tokens :
          j \in DOMAIN revoked_tokens' => revoked_tokens'[j] = revoked_tokens[j]]_vars

\* C15: the entry of a revoked token is in the revocation list at every time
\* up to the token's own expiry plus the 30 days of retention.
C15_EntryKeptThroughRetention ==
    \A tok \in issued :
        (tok.jti \in revoke_called /\ now <= tok.exp + RevocationTTL)
            => tok.jti \in DOMAIN revoked_tokens

\* C16: whenever a session record leaves the registry (logout, logout of all
\* sessions, cleanup), both its token ids are in the revocation list afterwards.
C16_TerminationRevokesTokens ==
    [][\A s \in DOMAIN active_sessions \ DOMAIN active_sessions' :
          /\ active_sessions[s].access_token_jti \in DOMAIN revoked_tokens'
          /\ active_sessions[s].refresh_token_jti \in DOMAIN revoked_tokens']_vars

\* --------------------------------------- claims, EnterpriseSessionManager

\* a create_session call without a device fingerprint completes in this step
CreateStep ==
    /\ created' = created + 1
    /\ db_sessions'[created'].device_fingerprint = "none"

\* the sessions this step terminates
Evicted ==
    {s \in DOMAIN db_sessions : db_sessions[s].is_active /\ ~ db_sessions'[s].is_active}

\* C7: a create_session call (here: one without a device fingerprint, so that
\* only the concurrent-session limit acts) for a subject who has exactly
\* max_concurrent_sessions active sessions evicts exactly one session, the one
\* of oldest last_activity, and leaves the subject with exactly
\* max_concurrent_sessions active sessions, the new one included.
C7_EvictsOneAtLimit ==
    [][CreateStep =>
          LET u == db_sessions'[created'].user_id
          IN Cardinality(user_counted(db_sessions, u, now)) = max_concurrent_sessions =>
                /\ Cardinality(Evicted) = 1
                /\ \A e \in Evicted, r \in user_candidates(db_sessions, u) :
                      db_sessions[e].last_activity <= db_sessions[r].last_activity
                /\ Cardinality(user_counted(db_sessions', u, now))
                      = max_concurrent_sessions]_vars

\* C8: once every concurrent create_session call has completed, and no session
\* on record has expired, no subject has more than max_concurrent_sessions
\* active sessions.
C8_ConcurrentCreatesWithinLimit ==
    (/\ Creating = {}
     /\ \A s \in DOMAIN db_sessions : db_sessions[s].expires_at > now)
        => \A u \in Users :
              Cardinality(user_counted(db_sessions, u, now)) <= max_concurrent_sessions

\* C9: after any sequence of create_session calls, no device fingerprint of a
\* subject carries more than max_sessions_per_device active sessions.
C9_DeviceLimitHolds ==
    \A u \in Users, d \in Devices \ {"none"} :
        Cardinality(device_counted(db_sessions, u, d, now)) <= max_sessions_per_device

\* C10: whenever create_session (here: without a device fingerprint) evicts,
\* every evicted session is older than every active session of the subject it
\* keeps: older last_activity, or equal last_activity and created_at not later.
C10_EvictionOrder ==
    [][CreateStep =>
          LET u == db_sessions'[created'].user_id
          IN \A e \in Evicted, r \in user_candidates(db_sessions, u) \ Evicted :
                \/ db_sessions[e].last_activity < db_sessions[r].last_activity
                \/ /\ db_sessions[e].last_activity = db_sessions[r].last_activity
                   /\ db_sessions[e].created_at <= db_sessions[r].created_at]_vars

\* C17: no token passes the signature and expiry check at a time later than
\* its exp.
C17_NoneAcceptedAfterExp ==
    \A tok \in EnterprisePresentable : decode(tok, now) = "ok" => now <= tok.exp

\* a create_session call completes in this step
Created == created' = created + 1

\* C19: a create_session call with a device fingerprint for which the subject
\* has no trust record when the call starts records a new_device event of
\* severity low for the new session.
C19_NewDeviceEvent ==
    [][Created =>
          LET new == db_sessions'[created']
          IN (/\ new.device_fingerprint # "none"
              /\ <<new.user_id, new.device_fingerprint>> \notin db_trusted)
                => SessionSecurityEvent(created', new.user_id, "new_device", "low")
                      \in db_events']_vars

\* C20: a create_session call with location country c, for a subject who has
\* an active session created within the last 2 hours from another country
\* (one the call does not evict), records a suspicious_location event of
\* severity medium for the new session; when every such session is from c, it
\* records none.
C20_SuspiciousLocationEvent ==
    [][Created =>
          LET new == db_sessions'[created']
              elsewhere ==
                  {s \in DOMAIN db_sessions :
                      /\ db_sessions[s].user_id = new.user_id
                      /\ db_sessions[s].is_active /\ db_sessions'[s].is_active
                      /\ db_sessions[s].created_at > now - RecentWindow
                      /\ db_sessions[s].location_country
                            \notin {"none", new.location_country}}
              event == SessionSecurityEvent(created', new.user_id,
                                            "suspicious_location", "medium")
          IN new.location_country # "none" =>
                (elsewhere # {} <=> event \in db_events')]_vars

\* -------------------------------------------------------- claims, auth.rs

\* C18: every token signed carries the lifetime of its kind: 15 minutes for an
\* access token, 7 days for a refresh token.
C18_LifetimeOfKind ==
    \A tok \in auth_issued \cup issued \cup EnterprisePresentable :
        tok.exp - tok.iat = (IF tok.token_type = "access" THEN AccessTTL ELSE RefreshTTL)

\* ----------------------------------------------------------------- audit.rs

\* an Option<String> or Option<Uuid>: a string is the sequence of its
\* characters
None == [some |-> FALSE, val |-> <<>>]
Some(str) == [some |-> TRUE, val |-> str]

\* Option::unwrap_or_default(), as_deref().unwrap_or_default()
unwrap_or_default(opt) == IF opt.some THEN opt.val ELSE <<>>

\* what extract_ip_address and extract_user_agent make of the request's
\* headers: none, an empty one, one with a `|` in it
HeaderOptions == {None, Some(<<>>), Some(<<"|">>)}

\* the values AUDIT_SECRET may have when set
Keys == {"k1"}

\* what Utc::now() has below the microsecond, in nanoseconds
SubMicros == {0, 500}

\* DateTime<Utc>: the microseconds a Postgres timestamp keeps, and the rest
DateTime(us, ns) == [micros |-> us, nanos |-> ns]

\* DateTime::to_rfc3339(): as many fractional digits as the value needs
to_rfc3339(ts) ==
    IF ts.nanos = 0 THEN <<ToString(ts.micros)>>
    ELSE <<ToString(ts.micros), ToString(ts.nanos)>>

AuditEvent(ty, uid, rid, ip, ua, det, ts) ==
    [event_type |-> ty, user_id |-> uid, resource_id |-> rid, ip_address |-> ip,
     user_agent |-> ua, details |-> det, timestamp |-> ts]

\* the string generate_integrity_hash signs: the fields joined with `|`
log_data(log) ==
    <<log.event_type>> \o <<"|">>
    \o unwrap_or_default(log.user_id) \o <<"|">>
    \o unwrap_or_default(log.resource_id) \o <<"|">>
    \o unwrap_or_default(log.ip_address) \o <<"|">>
    \o unwrap_or_default(log.user_agent) \o <<"|">>
    \o unwrap_or_default(log.details) \o <<"|">>
    \o to_rfc3339(log.timestamp)

\* hex::encode(hmac::sign(key, data)): tags are equal only for the same key
\* and the same data
hmac_sign(key, data) == <<key>> \o data

\* generate_integrity_hash(log) under AUDIT_SECRET = secret
generate_integrity_hash(secret, log) ==
    IF secret = "unset" THEN [ok |-> FALSE, hash |-> <<>>]
    ELSE [ok |-> TRUE, hash |-> hmac_sign(secret, log_data(log))]

\* the names parse_event_type knows, among them the two login writes
EventTypes == {"UserLogin", "LoginFailed"}

\* the row of audit_logs an event is stored as: the timestamp column keeps
\* microseconds
AuditLog(id, event, hash) ==
    [id |-> id, event_type |-> event.event_type, user_id |-> event.user_id,
     resource_id |-> event.resource_id, ip_address |-> event.ip_address,
     user_agent |-> event.user_agent, details |-> event.details,
     timestamp |-> event.timestamp.micros, integrity_hash |-> hash]

\* verify_log_integrity(log) under AUDIT_SECRET = secret
verify_log_integrity(secret, log) ==
    IF log.event_type \notin EventTypes THEN "Err"
    ELSE LET event == AuditEvent(log.event_type, log.user_id, log.resource_id,
                                 log.ip_address, log.user_agent, log.details,
                                 DateTime(log.timestamp, 0))
             expected_hash == generate_integrity_hash(secret, event)
         IN IF ~expected_hash.ok THEN "Err"
            ELSE IF expected_hash.hash = log.integrity_hash THEN "true"
            ELSE "false"

\* a log_event that stores the entry untagged when there is no key
log_event_open(logs, secret, event, id, db_ok) ==
    IF ~db_ok THEN [result |-> "Err", logs |-> logs]
    ELSE [result |-> "Ok",
          logs |-> logs \cup {AuditLog(id, event, generate_integrity_hash(secret, event).hash)}]

\* log_event(db_pool, event) on the table logs, the new row getting id; db_ok
\* is whether the pool gives a connection and the insert goes through
log_event(logs, secret, event, id, db_ok) ==
    LET integrity_hash == generate_integrity_hash(secret, event)
    IN IF ~integrity_hash.ok \/ ~db_ok THEN [result |-> "Err", logs |-> logs]
       ELSE [result |-> "Ok",
             logs |-> logs \cup {AuditLog(id, event, integrity_hash.hash)}]

\* the three ways login ends once the user row was looked up
LoginOutcomes == {"logged_in", "invalid_password", "user_not_found"}

\* the event audit_log! builds for a login that ended as outcome
login_event(outcome, u, ip, ua, ts) ==
    CASE outcome = "logged_in" ->
             AuditEvent("UserLogin", Some(<<u>>), None, ip, ua, None, ts)
      [] outcome = "invalid_password" ->
             AuditEvent("LoginFailed", Some(<<u>>), Some(<<u>>), ip, ua,
                        Some(<<"Invalid password for user">>), ts)
      [] OTHER ->
             AuditEvent("LoginFailed", None, Some(<<"nil">>), ip, ua,
                        Some(<<"User not found">>), ts)

\* the process starts with AUDIT_SECRET set to secret, or without it
restart(secret) ==
    /\ audit_secret' = secret
    /\ UNCHANGED <<now, advances, tm_vars, esm_vars, auth_vars, risk_vars, more_vars, audit_logs,
                   audit_calls, audit_result, login_response>>

\* login(user_data) from the password check on: sign the tokens of a good
\* login, write the audit entry with audit_log!, answer
login(outcome, u, ip, ua, ns, db_ok) ==
    /\ audit_calls < MaxAuditEvents
    /\ LET event == login_event(outcome, u, ip, ua, DateTime(now, ns))
           logged == log_event(audit_logs, audit_secret, event, audit_calls + 1, db_ok)
       IN /\ audit_logs' = logged.logs
          /\ audit_result' = logged.result
          /\ login_response' = [status |-> IF outcome = "logged_in" THEN 200 ELSE 401,
                                audit |-> logged.result]
    /\ audit_calls' = audit_calls + 1
    /\ IF outcome = "logged_in"
       THEN /\ auth_issued' = auth_issued \cup TokenPair(u, now)
            /\ auth_calls' = auth_calls + 1
       ELSE UNCHANGED auth_vars
    /\ UNCHANGED <<now, advances, tm_vars, esm_vars, risk_vars, more_vars, audit_secret>>

NextAudit ==
    \/ \E secret \in Keys \cup {"unset"} : restart(secret)
    \/ \E outcome \in LoginOutcomes, u \in Users, ip \in HeaderOptions,
           ua \in HeaderOptions, ns \in SubMicros, db_ok \in BOOLEAN :
          login(outcome, u, ip, ua, ns, db_ok)

SpecAudit == Init /\ [][NextAudit]_vars

\* ---------------------------------------------------------------- crypto.rs

\* the values of a payload byte, of which two are told apart
Byte == {0, 1}

\* the byte strings of length n
Bytes(n) == [1..n -> Byte]

\* the payloads encrypted: every byte string up to MaxPayload bytes
Payloads == UNION {Bytes(n) : n \in 0..MaxPayload}

\* what ENCRYPTION_KEY may be set to: two keys of the right length, and
\* values a byte too short and too long
KeyMaterials ==
    {[set |-> TRUE, len |-> n, id |-> k] : n \in {KeyLen - 1, KeyLen + 1}, k \in {1}}
    \cup {[set |-> TRUE, len |-> KeyLen, id |-> k] : k \in {1, 2}}

\* what SystemRandom fills nonce_bytes with: two of the values it may draw
Nonces == {[i \in 1..NonceLen |-> IF i = 1 THEN b ELSE 0] : b \in Byte}

\* AES-256-GCM under key and nonce: byte i of the key stream
keystream(key, nonce, i) == (key + nonce[1] + nonce[NonceLen] + i) % 2

\* plaintext to ciphertext and back: each byte added to the key stream
apply_keystream(key, nonce, data) ==
    [i \in 1..Len(data) |-> (data[i] + keystream(key, nonce, i)) % 2]

\* the number whose binary digits are the bytes of ct
RECURSIVE number(_)
number(ct) == IF ct = <<>> THEN 0 ELSE ct[1] + 2 * number(Tail(ct))

\* the GCM tag of a ciphertext: a value of TagLen bytes that is different
\* for different keys, nonces and ciphertexts: the nonce, the length and the
\* bytes of the ciphertext, each byte moved by the key
gcm_tag(key, nonce, ct) ==
    LET base == nonce \o <<Len(ct)>>
                \o [j \in 1..(TagLen - NonceLen - 1) |->
                       number(ct) \div (256 ^ (j - 1))]
    IN [i \in 1..TagLen |-> (base[i] + key) % 256]

\* LessSafeKey::seal_in_place_append_tag(nonce, Aad::empty(), data)
seal_in_place_append_tag(key, nonce, data) ==
    LET ct == apply_keystream(key, nonce, data)
    IN ct \o gcm_tag(key, nonce, ct)

\* LessSafeKey::open_in_place(nonce, Aad::empty(), ciphertext)
open_in_place(key, nonce, sealed) ==
    IF Len(sealed) < TagLen THEN [ok |-> FALSE, err |-> "Decryption failed", val |-> <<>>]
    ELSE LET ct == SubSeq(sealed, 1, Len(sealed) - TagLen)
             tag == SubSeq(sealed, Len(sealed) - TagLen + 1, Len(sealed))
         IN IF tag # gcm_tag(key, nonce, ct)
            THEN [ok |-> FALSE, err |-> "Decryption failed", val |-> <<>>]
            ELSE [ok |-> TRUE, err |-> "", val |-> apply_keystream(key, nonce, ct)]

\* a generate_key that takes a key of any length
generate_key_any_length(env) ==
    IF ~env.set
    THEN [ok |-> FALSE, err |-> "ENCRYPTION_KEY environment variable must be set", key |-> 0]
    ELSE [ok |-> TRUE, err |-> "", key |-> env.id]

\* generate_key() under ENCRYPTION_KEY = env: the key, or why there is none
generate_key(env) ==
    IF ~env.set
    THEN [ok |-> FALSE, err |-> "ENCRYPTION_KEY environment variable must be set", key |-> 0]
    ELSE IF env.len # KeyLen
    THEN [ok |-> FALSE, err |-> "ENCRYPTION_KEY must be exactly 32 bytes for AES-256-GCM",
          key |-> 0]
    ELSE [ok |-> TRUE, err |-> "", key |-> env.id]

\* an encrypt that stores the nonce behind the sealed data
encrypt_nonce_last(data, key, nonce_bytes) ==
    [ok |-> TRUE, err |-> "",
     val |-> seal_in_place_append_tag(key, nonce_bytes, data) \o nonce_bytes]

\* encrypt(data, key), the random nonce being nonce_bytes
encrypt(data, key, nonce_bytes) ==
    [ok |-> TRUE, err |-> "",
     val |-> nonce_bytes \o seal_in_place_append_tag(key, nonce_bytes, data)]

\* a decrypt that returns the bytes under the key stream without the tag check
decrypt_unchecked(encrypted, key) ==
    IF Len(encrypted) < NonceLen + TagLen
    THEN [ok |-> FALSE, err |-> "Encrypted data too short to contain nonce", val |-> <<>>]
    ELSE [ok |-> TRUE, err |-> "",
          val |-> apply_keystream(key, SubSeq(encrypted, 1, NonceLen),
                                  SubSeq(encrypted, NonceLen + 1, Len(encrypted) - TagLen))]

\* decrypt(encrypted, key)
decrypt(encrypted, key) ==
    IF Len(encrypted) < NonceLen
    THEN [ok |-> FALSE, err |-> "Encrypted data too short to contain nonce", val |-> <<>>]
    ELSE open_in_place(key, SubSeq(encrypted, 1, NonceLen),
                       SubSeq(encrypted, NonceLen + 1, Len(encrypted)))

\* data with byte i changed
flip(data, i) == [data EXCEPT ![i] = IF @ = 0 THEN 1 ELSE 0]

\* what a stored envelope can come back as: itself, one byte of the
\* ciphertext or tag changed, or cut short
Damaged(data) ==
    {flip(data, i) : i \in (NonceLen + 1)..Len(data)}
    \cup {SubSeq(data, 1, n) : n \in 0..(Len(data) - 1)}

\* the process starts with ENCRYPTION_KEY set to env, or without it
set_encryption_key(env) ==
    /\ encryption_key' = env
    /\ UNCHANGED <<now, advances, tm_vars, esm_vars, auth_vars, risk_vars, audit_vars,
                   km_vars, lock_vars, trust_vars, blob, crypto_out>>

\* encrypt_password(password) and encrypt_metadata(metadata)
encrypt_password(password, nonce_bytes) ==
    LET key == generate_key(encryption_key)
        sealed == encrypt(password, key.key, nonce_bytes)
    IN /\ crypto_out' =
             IF ~key.ok
             THEN [op |-> "encrypt", ok |-> FALSE, err |-> key.err, val |-> <<>>,
                   input |-> password, key |-> encryption_key]
             ELSE [op |-> "encrypt", ok |-> TRUE, err |-> "", val |-> sealed.val,
                   input |-> password, key |-> encryption_key]
       /\ blob' = IF key.ok
                  THEN [data |-> sealed.val, payload |-> password, key |-> encryption_key]
                  ELSE blob
       /\ UNCHANGED <<now, advances, tm_vars, esm_vars, auth_vars, risk_vars, audit_vars,
                      km_vars, lock_vars, trust_vars, encryption_key>>

\* decrypt_password(encrypted_password) and decrypt_metadata(encrypted_metadata)
decrypt_password(encrypted_password) ==
    LET key == generate_key(encryption_key)
        opened == decrypt(encrypted_password, key.key)
    IN /\ crypto_out' =
             IF ~key.ok
             THEN [op |-> "decrypt", ok |-> FALSE, err |-> key.err, val |-> <<>>,
                   input |-> encrypted_password, key |-> encryption_key]
             ELSE [op |-> "decrypt", ok |-> opened.ok, err |-> opened.err,
                   val |-> opened.val, input |-> encrypted_password,
                   key |-> encryption_key]
       /\ UNCHANGED <<now, advances, tm_vars, esm_vars, auth_vars, risk_vars, audit_vars,
                      km_vars, lock_vars, trust_vars, encryption_key, blob>>

NextCrypto ==
    \/ \E env \in KeyMaterials \cup {NoKey} : set_encryption_key(env)
    \/ \E password \in Payloads, nonce_bytes \in Nonces :
          encrypt_password(password, nonce_bytes)
    \/ \E encrypted \in {blob.data} \cup Damaged(blob.data) : decrypt_password(encrypted)

SpecCrypto == Init /\ [][NextCrypto]_vars

\* ------------------------------ update_device_trust, statement by statement

\* TrustedDevice, of one user and one device fingerprint: td_rows holds the
\* rows of trusted_devices for that pair
TrustedDevice(n) == [trust_level |-> new_device_trust_level, session_count |-> n]

\* calls of update_device_trust that have read and not yet written
Updating == {th \in Threads : td_pc[th].at = "read"}

\* update_device_trust, lines 652-656: the query for the existing device,
\* `.first` taking the first row there is
update_device_trust_read(th) ==
    /\ td_pc[th].at = "idle"
    /\ td_passed + Cardinality(Updating) < MaxTrustCalls
    /\ td_pc' = [td_pc EXCEPT ![th] =
                    [at |-> "read", found |-> td_rows # <<>>,
                     session_count |-> IF td_rows # <<>> THEN td_rows[1].session_count
                                       ELSE 0]]
    /\ UNCHANGED <<now, advances, tm_vars, esm_vars, auth_vars, risk_vars, audit_vars,
                   crypto_vars, km_vars, lock_vars, td_rows, td_passed>>

\* update_device_trust, lines 658-722: for a device that was found, the
\* update of every row of the pair to the count read plus one; for a device
\* that was not found, the insert of a row with session_count 1.  The table
\* definition is not in the sources: an insert that finds a row of the pair
\* already there either adds a second one, or fails on a unique index and
\* the call returns Err.
update_device_trust_write(th) ==
    /\ td_pc[th].at = "read"
    /\ td_pc' = [td_pc EXCEPT ![th] = NoTrustRead]
    /\ IF td_pc[th].found
       THEN /\ td_rows' = [i \in DOMAIN td_rows |->
                              [td_rows[i] EXCEPT
                                  !.session_count = td_pc[th].session_count + 1]]
            /\ td_passed' = td_passed + 1
       ELSE \/ /\ td_rows' = Append(td_rows, TrustedDevice(1))
               /\ td_passed' = td_passed + 1
            \/ /\ td_rows # <<>>
               /\ UNCHANGED <<td_rows, td_passed>>
    /\ UNCHANGED <<now, advances, tm_vars, esm_vars, auth_vars, risk_vars, audit_vars,
                   crypto_vars, km_vars, lock_vars>>

\* concurrent create_session calls of one user from one device, as far as
\* the trust record goes, among logins without fingerprint, the clock, and
\* cleanup_expired_data deleting what has expired
NextTrustRace ==
    \/ \E th \in Threads : update_device_trust_read(th)
    \/ \E th \in Threads : update_device_trust_write(th)
    \/ \E u \in Users : create_session(u, "none", "none", FALSE)
    \/ Tick(RefreshTTL + 1)
    \/ cleanup_expired_data

SpecTrustRace == Init /\ [][NextTrustRace]_vars

\* ------------------------------------------- the locks of the TokenManager

\* self.<lock>.lock() and the end of the `if let` block that holds the guard
acq(l) == [op |-> "acq", lock |-> l]
rel(l) == [op |-> "rel", lock |-> l]

\* a block that takes one lock and calls nothing inside
section(l) == <<acq(l), rel(l)>>

\* record_token_analytics
record_token_analytics_locks == section("token_analytics")

\* revoke_token: the revocation list, then record_token_analytics
revoke_token_locks == section("revoked_tokens") \o record_token_analytics_locks

\* generate_enhanced_token_pair: the sessions, then record_token_analytics
generate_enhanced_token_pair_locks ==
    section("active_sessions") \o record_token_analytics_locks

\* a validate_enhanced_token that updates the session inside the block that
\* holds the revocation list
validate_enhanced_token_nested ==
    <<acq("revoked_tokens")>> \o section("active_sessions") \o <<rel("revoked_tokens")>>

\* validate_enhanced_token of a token that passes: the revocation list,
\* released, then the sessions
validate_enhanced_token_locks == section("revoked_tokens") \o section("active_sessions")

\* validate_enhanced_token of a revoked token: it returns inside the first
\* block
validate_enhanced_token_revoked_locks == section("revoked_tokens")

\* refresh_token_pair: validate, revoke the old token, generate, analytics
refresh_token_pair_locks ==
    validate_enhanced_token_locks \o revoke_token_locks
        \o generate_enhanced_token_pair_locks \o record_token_analytics_locks

\* revoke_session of a session on record: both revoke_token calls inside the
\* block that holds the sessions
revoke_session_locks ==
    <<acq("active_sessions")>> \o revoke_token_locks \o revoke_token_locks
        \o <<rel("active_sessions")>>

\* revoke_all_user_tokens of a user with n sessions
RECURSIVE revoke_each(_)
revoke_each(n) ==
    IF n = 0 THEN <<>> ELSE revoke_token_locks \o revoke_token_locks \o revoke_each(n - 1)

revoke_all_user_tokens_locks(n) ==
    <<acq("active_sessions")>> \o revoke_each(n) \o <<rel("active_sessions")>>

\* cleanup_expired_tokens: three blocks, one after the other
cleanup_expired_tokens_locks ==
    section("revoked_tokens") \o section("active_sessions") \o section("token_analytics")

\* get_token_statistics: three blocks, one after the other
get_token_statistics_locks ==
    section("active_sessions") \o section("revoked_tokens") \o section("token_analytics")

\* the calls followed, each as the lock operations it performs in order
LockPrograms ==
    {generate_enhanced_token_pair_locks, validate_enhanced_token_locks,
     validate_enhanced_token_revoked_locks, refresh_token_pair_locks, revoke_token_locks,
     revoke_session_locks, revoke_all_user_tokens_locks(0),
     revoke_all_user_tokens_locks(1), cleanup_expired_tokens_locks,
     get_token_statistics_locks}

\* the locks thread th holds
held(th) == {l \in Locks : lock_holder[l] = th}

\* thread th enters a call
lk_call(th, prog) ==
    /\ lk_prog[th] = <<>>
    /\ lk_calls < MaxLockCalls
    /\ lk_prog' = [lk_prog EXCEPT ![th] = prog]
    /\ lk_calls' = lk_calls + 1
    /\ UNCHANGED <<now, advances, tm_vars, esm_vars, auth_vars, risk_vars, audit_vars,
                   crypto_vars, km_vars, trust_vars, lock_holder>>

\* thread th performs its next lock operation: Mutex::lock waits while any
\* thread, the caller included, holds the lock
lk_step(th) ==
    /\ lk_prog[th] # <<>>
    /\ LET step == Head(lk_prog[th])
       IN IF step.op = "acq"
          THEN /\ lock_holder[step.lock] = 0
               /\ lock_holder' = [lock_holder EXCEPT ![step.lock] = th]
          ELSE lock_holder' = [lock_holder EXCEPT ![step.lock] = 0]
    /\ lk_prog' = [lk_prog EXCEPT ![th] = Tail(lk_prog[th])]
    /\ UNCHANGED <<now, advances, tm_vars, esm_vars, auth_vars, risk_vars, audit_vars,
                   crypto_vars, km_vars, trust_vars, lk_calls>>

NextLocks ==
    \/ \E th \in Threads, prog \in LockPrograms : lk_call(th, prog)
    \/ \E th \in Threads : lk_step(th)

\* every thread that can take its next step is scheduled eventually
SpecLocks == Init /\ [][NextLocks]_vars /\ \A th \in Threads : WF_vars(lk_step(th))

\* -------------------------------------------------------- key_management.rs

\* the variables that configure AWS KMS
AwsVars == {"AWS_REGION", "AWS_KMS_KEY_ID", "AWS_ACCESS_KEY_ID", "AWS_SECRET_ACCESS_KEY"}

\* the variables that configure HashiCorp Vault
VaultVars == {"VAULT_URL", "VAULT_TOKEN", "VAULT_MOUNT_PATH", "VAULT_KEY_NAME"}

\* a detect_provider that looks for Vault before AWS KMS
detect_provider_vault_first(env) ==
    IF \A v \in VaultVars : v \in env THEN "HashiCorpVault"
    ELSE IF \A v \in AwsVars : v \in env THEN "AwsKms"
    ELSE "Environment"

\* KeyManager::detect_provider() in an environment where the variables of
\* env are set
detect_provider(env) ==
    IF /\ "AWS_REGION" \in env
       /\ "AWS_KMS_KEY_ID" \in env
       /\ "AWS_ACCESS_KEY_ID" \in env
       /\ "AWS_SECRET_ACCESS_KEY" \in env
    THEN "AwsKms"
    ELSE IF /\ "VAULT_URL" \in env
            /\ "VAULT_TOKEN" \in env
            /\ "VAULT_MOUNT_PATH" \in env
            /\ "VAULT_KEY_NAME" \in env
    THEN "HashiCorpVault"
    ELSE "Environment"

\* std::env::set_var(v, ..)
set_var(v) ==
    /\ v \notin key_env
    /\ key_env' = key_env \cup {v}
    /\ UNCHANGED <<now, advances, tm_vars, esm_vars, auth_vars, risk_vars, audit_vars,
                   crypto_vars, lock_vars, trust_vars, KEY_MANAGER, km_inits>>

\* std::env::remove_var(v)
remove_var(v) ==
    /\ v \in key_env
    /\ key_env' = key_env \ {v}
    /\ UNCHANGED <<now, advances, tm_vars, esm_vars, auth_vars, risk_vars, audit_vars,
                   crypto_vars, lock_vars, trust_vars, KEY_MANAGER, km_inits>>

\* get_key_manager(): KEY_MANAGER.get_or_init runs KeyManager::new() when
\* the cell is empty, and returns what the cell holds
get_key_manager ==
    /\ IF KEY_MANAGER = "uninit"
       THEN /\ KEY_MANAGER' = detect_provider(key_env)
            /\ km_inits' = km_inits + 1
       ELSE UNCHANGED <<KEY_MANAGER, km_inits>>
    /\ UNCHANGED <<now, advances, tm_vars, esm_vars, auth_vars, risk_vars, audit_vars,
                   crypto_vars, lock_vars, trust_vars, key_env>>

NextKeys ==
    \/ \E v \in AwsVars \cup VaultVars : set_var(v)
    \/ \E v \in AwsVars \cup VaultVars : remove_var(v)
    \/ get_key_manager

SpecKeys == Init /\ [][NextKeys]_vars

\* ------------------------------------- claims, failures of create_session

\* C21: the detectors are advisory: no call of create_session fails because
\* check_security_events failed
C21_DetectionNeverFailsCreate ==
    \A e \in es_errors : e[2] # "check_security_events"

\* C22: the session record and the token pair come together: every active
\* session on record was returned, with its tokens, by the create_session
\* call that inserted it
C22_NoSessionWithoutTokens ==
    \A s \in DOMAIN db_sessions : db_sessions[s].is_active => s \in es_returned


\* --------------------------------------------------- claims, risk scoring

\* a score has been answered for a session on record
Scored == sc_response.valid

\* this step computes a score
ScoreStep == sc_events' = sc_events

\* the events of the scored session inside the lookback
RecentEvents == get_session_security_events(sc_events, now)

\* the events of severity sev in the list scored, each as often as it occurs
EventCount(sev) ==
    LET of_sev == filter_events(sc_events, {e \in DOMAIN sc_events : e.severity = sev})
    IN BagCardinality(of_sev)

\* the sum of the factors of the session and the event list scored, uncapped
RawScore ==
      (IF sc_session.device_fingerprint = "none" THEN 20 ELSE 0)
    + (IF sc_session.location_country = "none" THEN 10 ELSE 0)
    + 40 * EventCount("critical") + 25 * EventCount("high")
    + 15 * EventCount("medium") + 5 * EventCount("low")
    + (IF now - sc_session.created_at > OldSessionAge THEN 10 ELSE 0)
    + (IF now - sc_session.last_activity > InactiveAge THEN 15 ELSE 0)

\* the score answered is the sum of the factors of the session and the
\* events scored, capped
RiskScoreFormula ==
    Scored =>
        /\ sc_response.risk_score = (IF RawScore < 100 THEN RawScore ELSE 100)
        /\ sc_response.risk_score \in 0..100

\* C23: for every session record and event list, the risk score is min(100,
\* 20 without fingerprint + 10 without country + the severity weights of the
\* events (critical 40, high 25, medium 15, low 5, other 0) + 10 for a
\* session older than 7 days + 15 for a session without activity for more
\* than 24 hours), and so lies in 0..100
C23_RiskScoreFormula == [][ScoreStep => RiskScoreFormula']_vars

\* a session idle for more than a day, with events enough for the cap to cut
C23_Witness ==
    /\ Scored
    /\ now - sc_session.last_activity > InactiveAge
    /\ RawScore > 100
    /\ sc_response.risk_score = 100

\* C35: a session without activity for more than 24 hours gets the 15
\* points when it is next validated: the score validate_session answers is
\* computed from the last_activity the row had before this validation
C35_InactivityPenaltyOnValidate ==
    [][ScoreStep =>
         (Scored =>
            sc_response.risk_score =
                calculate_risk_score(sc_session, RecentEvents, now))']_vars

\* the score answered is that of the unresolved recent events
OnlyUnresolvedRecentEventsCount ==
    Scored =>
        LET unresolved == {e \in DOMAIN RecentEvents : e.resolved # "true"}
        IN sc_response.risk_score =
               calculate_risk_score([sc_session EXCEPT !.last_activity = now],
                                    filter_events(RecentEvents, unresolved), now)

\* C24: resolved events and events older than 7 days add nothing: the score
\* returned is the score of the unresolved recent events alone
C24_OnlyUnresolvedRecentEventsCount ==
    [][ScoreStep => OnlyUnresolvedRecentEventsCount']_vars

\* the actions answered are the ones the score, the events and the age call for
RequiredActions ==
    Scored =>
        LET acts == sc_response.actions_required
            has(a) == \E i \in 1..Len(acts) : acts[i] = a
            score == sc_response.risk_score
            rank(a) == CASE a = "force_refresh" -> 1
                         [] a = "immediate_review" -> 2
                         [] a = "monitor_closely" -> 3
                         [] a = "notify_user" -> 4
                         [] a = "require_mfa" -> 5
                         [] OTHER -> 0
        IN /\ \A i \in 1..Len(acts) : rank(acts[i]) > 0
           /\ \A i, j \in 1..Len(acts) : i < j => rank(acts[i]) < rank(acts[j])
           /\ has("require_mfa") <=> score > 60
           /\ has("notify_user") <=> score > 80
           /\ has("monitor_closely") <=> (score > 40 /\ score <= 60)
           /\ has("immediate_review") <=>
                  \E e \in DOMAIN RecentEvents :
                      e.severity = "critical" /\ e.resolved # "true"
           /\ has("force_refresh") <=> now - sc_session.created_at > ForceRefreshAge

\* C25: the required actions are sorted and free of duplicates, and hold
\* require_mfa and notify_user iff score > 80, require_mfa alone iff
\* 60 < score <= 80, monitor_closely iff 40 < score <= 60, immediate_review
\* iff a critical recent event is unresolved, force_refresh iff the session
\* is older than 30 days, and nothing else
C25_RequiredActions == [][ScoreStep => RequiredActions']_vars

\* a session old enough for a refresh is answered with two actions or more
C25_Witness ==
    /\ Scored
    /\ now - sc_session.created_at > ForceRefreshAge
    /\ Len(sc_response.actions_required) >= 3
    /\ sc_response.risk_score > 80


\* the trust record of the device the scored session came from is on file
TrustRecordOnFile ==
    /\ sc_session.device_fingerprint # "none"
    /\ <<sc_session.user_id, sc_session.device_fingerprint>> \in db_trusted

\* C26 as stated: the trust level answered is that of the matching trust
\* record, and untrusted when there is none
C26_UntrustedWithoutRecord ==
    Scored =>
        sc_response.trust_level =
            IF TrustRecordOnFile THEN new_device_trust_level ELSE "untrusted"

\* C26: the trust level answered is that of the matching trust record, and
\* unknown when there is none, a session without fingerprint included
C26_UnknownWithoutRecord ==
    Scored =>
        sc_response.trust_level =
            IF TrustRecordOnFile THEN new_device_trust_level ELSE "unknown"

\* a session without fingerprint and one with a trust record were both
\* created, and the one without was validated
C26_Witness ==
    /\ Scored
    /\ sc_session.device_fingerprint = "none"
    /\ sc_response.trust_level = "unknown"
    /\ db_trusted # {}


\* ------------------------------------------------------ claims, audit log

\* the entries this step appended
Appended == audit_logs' \ audit_logs

\* C27: an entry read back from the table right after its append verifies:
\* the tag recomputed from the stored fields, timestamp included, is the tag
\* stored
C27_AppendedEntryVerifies ==
    [][\A log \in Appended : verify_log_integrity(audit_secret', log) = "true"]_vars

\* what an entry can be altered to: another id, another value in one column,
\* or other values in the two header columns
Alterations(log) ==
    ( {[log EXCEPT !.id = v] : v \in 1..(MaxAuditEvents + 1)}
      \cup {[log EXCEPT !.event_type = v] : v \in EventTypes}
      \cup {[log EXCEPT !.user_id = v] : v \in {None, Some(<<>>), Some(<<"u1">>)}}
      \cup {[log EXCEPT !.resource_id = v] : v \in {None, Some(<<"u1">>), Some(<<"nil">>)}}
      \cup {[log EXCEPT !.ip_address = a, !.user_agent = b] :
                a \in HeaderOptions, b \in HeaderOptions}
      \cup {[log EXCEPT !.details = v] :
                v \in {None, Some(<<>>), Some(<<"Invalid password for user">>),
                       Some(<<"User not found">>)}}
      \cup {[log EXCEPT !.timestamp = v] : v \in {log.timestamp, log.timestamp + 1}} )
    \ {log}

\* C28: no altered entry verifies under the tag of the entry it was made
\* from: entries that differ in any field have different tags
C28_AlterationInvalidatesTag ==
    \A log \in audit_logs, key \in Keys :
        verify_log_integrity(key, log) = "true" =>
            \A altered \in Alterations(log) : verify_log_integrity(key, altered) # "true"

\* C29: log_event fails closed: called without AUDIT_SECRET in the
\* environment it returns an error and writes no entry, and every entry on
\* the table carries a tag
C29_AppendFailsClosed ==
    [][audit_calls' # audit_calls =>
          /\ audit_secret = "unset" => (audit_logs' = audit_logs /\ audit_result' = "Err")
          /\ \A log \in audit_logs' : log.integrity_hash # <<>>]_vars

\* a login was served without AUDIT_SECRET after another one had left its
\* entry
C29_Witness ==
    /\ audit_secret = "unset"
    /\ audit_result = "Err"
    /\ audit_calls = 2
    /\ Cardinality(audit_logs) = 1

\* C30: a login whose audit entry could not be written is aborted: every
\* login answered had its entry written
C30_AuditFailureAborts ==
    login_response.status # 0 => login_response.audit = "Ok"


\* ------------------------------------------------------ claims, crypto.rs

\* the last call decrypted the envelope last stored, under the key that
\* sealed it
OpenedOwn ==
    /\ crypto_out.op = "decrypt"
    /\ blob # NoBlob
    /\ crypto_out.input = blob.data
    /\ crypto_out.key = blob.key

\* C31: an envelope is nonce (12 bytes), ciphertext, tag (16 bytes), and
\* decrypting it under the key that sealed it returns exactly the payload,
\* the empty payload included
C31_EnvelopeRoundTrip ==
    /\ blob # NoBlob =>
          /\ Len(blob.data) = NonceLen + Len(blob.payload) + TagLen
          /\ SubSeq(blob.data, 1, NonceLen) \in Nonces
    /\ OpenedOwn => (crypto_out.ok /\ crypto_out.val = blob.payload)

\* the empty payload was sealed and opened again
C31_Witness ==
    /\ OpenedOwn
    /\ blob.payload = <<>>
    /\ crypto_out.ok

\* C32: decrypt returns no wrong plaintext: of the envelope last stored,
\* with a byte of ciphertext or tag changed, or cut short, or under another
\* key, it returns an error
C32_NoWrongPlaintext ==
    (crypto_out.op = "decrypt" /\ blob # NoBlob /\ generate_key(crypto_out.key).ok) =>
        /\ crypto_out.input \in Damaged(blob.data) => ~crypto_out.ok
        /\ (crypto_out.input = blob.data /\ crypto_out.key # blob.key) => ~crypto_out.ok

\* an envelope cut to fewer than 12 bytes was refused
C32_Witness ==
    /\ crypto_out.op = "decrypt"
    /\ blob # NoBlob
    /\ generate_key(crypto_out.key).ok
    /\ crypto_out.input \in Damaged(blob.data)
    /\ Len(crypto_out.input) < NonceLen
    /\ ~crypto_out.ok

\* C33: without ENCRYPTION_KEY the wrappers fail with the key-unavailable
\* error, with a key that is not 32 bytes with the invalid-key-length error,
\* and they return neither ciphertext nor plaintext then
C33_KeyErrors ==
    crypto_out.op # "none" =>
        /\ ~crypto_out.key.set =>
              /\ ~crypto_out.ok
              /\ crypto_out.err = "ENCRYPTION_KEY environment variable must be set"
              /\ crypto_out.val = <<>>
        /\ (crypto_out.key.set /\ crypto_out.key.len # KeyLen) =>
              /\ ~crypto_out.ok
              /\ crypto_out.err = "ENCRYPTION_KEY must be exactly 32 bytes for AES-256-GCM"
              /\ crypto_out.val = <<>>

\* a wrapper was called with a key of 33 bytes
C33_Witness ==
    /\ crypto_out.op = "encrypt"
    /\ crypto_out.key.set
    /\ crypto_out.key.len = KeyLen + 1
    /\ ~crypto_out.ok


\* ---------------------------------------------- claims, key_management.rs

\* the provider the stated priority gives in the environment env
PriorityProvider(env) ==
    CASE AwsVars \subseteq env -> "AwsKms"
      [] ~(AwsVars \subseteq env) /\ VaultVars \subseteq env -> "HashiCorpVault"
      [] OTHER -> "Environment"

\* C40: the key manager is initialized with AWS KMS iff all four AWS
\* variables are set, else with Vault iff all four Vault variables are set,
\* else with the environment provider (so with AWS_REGION and VAULT_URL
\* unset), and it is initialized at most once: once set it never changes
C40_ProviderPriorityInitOnce ==
    [][/\ KEY_MANAGER' # KEY_MANAGER =>
            /\ KEY_MANAGER = "uninit"
            /\ KEY_MANAGER' = PriorityProvider(key_env)
            /\ ("AWS_REGION" \notin key_env /\ "VAULT_URL" \notin key_env)
                  => KEY_MANAGER' = "Environment"
       /\ km_inits' <= 1]_vars

\* the manager was initialized with AWS KMS while the Vault variables were
\* set too, and it is still the AWS KMS one after the environment changed
C40_Witness ==
    /\ KEY_MANAGER = "AwsKms"
    /\ km_inits = 1
    /\ VaultVars \subseteq key_env
    /\ ~(AwsVars \subseteq key_env)


\* --------------------------------------- claims, validate_enterprise_session

\* C34: two tokens that are both rejected, whatever the reason (expired, bad
\* signature, revoked, session not found), get the identical response
C34_RejectionHidesReason ==
    \A t1, t2 \in EnterprisePresentable :
        LET r1 == validate_enterprise_session(t1, db_sessions, db_revoked, now)
            r2 == validate_enterprise_session(t2, db_sessions, db_revoked, now)
        IN (~r1.valid /\ ~r2.valid) => r1 = r2


\* ------------------------------------------ claims, revoke_all_user_tokens

\* what revoke_all_user_tokens(u) leaves behind
RevokeAllFrame(u) ==
    /\ get_user_sessions(active_sessions', u) = {}
    /\ \A j \in session_jtis(SessionsOf(active_sessions, u)) : j \in DOMAIN revoked_tokens'
    /\ \A s \in DOMAIN active_sessions \ SessionsOf(active_sessions, u) :
          /\ s \in DOMAIN active_sessions'
          /\ active_sessions'[s] = active_sessions[s]
    /\ \A j \in (DOMAIN revoked_tokens \cup DOMAIN revoked_tokens')
                    \ session_jtis(SessionsOf(active_sessions, u)) :
          /\ j \in DOMAIN revoked_tokens
          /\ j \in DOMAIN revoked_tokens'
          /\ revoked_tokens'[j] = revoked_tokens[j]

\* C36: revoke_all_user_tokens(u) touches only u: afterwards u has no
\* session on record and both token ids of each of its former sessions are
\* revoked, while the sessions of every other user and the revocation
\* status of every other token id are as before
C36_RevokeAllFrame ==
    [][\A u \in Subjects : revoke_all_user_tokens(u) => RevokeAllFrame(u)]_vars

\* u1 had two sessions and has none, their four token ids are revoked, and
\* u2 still has its session with neither token revoked
C36_Witness ==
    /\ Cardinality({tok \in issued : tok.sub = "u1"}) = 4
    /\ get_user_sessions(active_sessions, "u1") = {}
    /\ \A tok \in issued : tok.sub = "u1" => tok.jti \in DOMAIN revoked_tokens
    /\ get_user_sessions(active_sessions, "u2") # {}
    /\ \A tok \in issued : tok.sub = "u2" => tok.jti \notin DOMAIN revoked_tokens


\* ------------------------------------------ claims, locks of TokenManager

\* the order in which nested locks are taken
LockRank(l) ==
    CASE l = "active_sessions" -> 1
      [] l = "revoked_tokens" -> 2
      [] l = "token_analytics" -> 3

\* a thread about to take a lock holds only locks that come before it
ConsistentOrder ==
    \A th \in Threads :
        (lk_prog[th] # <<>> /\ Head(lk_prog[th]).op = "acq") =>
            \A l \in held(th) : LockRank(l) < LockRank(Head(lk_prog[th]).lock)

\* some thread is inside a call and none of them can take its next step
Deadlocked ==
    /\ \E th \in Threads : lk_prog[th] # <<>>
    /\ \A th \in Threads : lk_prog[th] # <<>> => ~ENABLED lk_step(th)

\* C37: under any interleaving of the calls on one TokenManager the three
\* locks are taken in a consistent order, no deadlock is reachable, and
\* every call completes
C37_NoCallBlocksForever ==
    /\ [](ConsistentOrder /\ ~Deadlocked)
    /\ \A th \in Threads : (lk_prog[th] # <<>>) ~> (lk_prog[th] = <<>>)

\* thread 1 holds the sessions inside revoke_session and waits for the
\* revocation list, which thread 2 holds
C37_Witness ==
    /\ lock_holder["active_sessions"] = 1
    /\ lock_holder["revoked_tokens"] = 2
    /\ lk_prog[1] # <<>>
    /\ Head(lk_prog[1]) = acq("revoked_tokens")


\* ------------------------------------- claims, enforce_session_limits sets

\* C38: the sessions a create_session call evicts are among those its count
\* ranged over, the active unexpired sessions of the subject or of the
\* subject's device, so that afterwards the subject has no more than
\* max_concurrent_sessions active unexpired sessions
C38_EvictedAmongCounted ==
    [][created' = created + 1 =>
          LET u == db_sessions'[created'].user_id
              d == db_sessions'[created'].device_fingerprint
          IN /\ Evicted \subseteq
                    user_counted(db_sessions, u, now) \cup device_counted(db_sessions, u, d, now)
             /\ Cardinality(user_counted(db_sessions', u, now)) <= max_concurrent_sessions]_vars


\* ------------------------------------------- claims, update_device_trust

\* C39: there is at most one trust record per user and fingerprint, and once
\* the calls under way have finished its session_count is the number of
\* create_session calls that passed the trust update; cleanup removes none
C39_OneTrustRecordCountsCalls ==
    /\ Len(td_rows) <= 1
    /\ td_passed > 0 => td_rows # <<>>
    /\ Updating = {} => \A i \in DOMAIN td_rows : td_rows[i].session_count = td_passed

====
